---- MODULE Spec2Model ----
(***************************************************************************)
(* gitui: the command queue (app/exec/command_queue.py), the pending-      *)
(* intent routing of the controller (app/core/controller.py), the shared   *)
(* repository state (app/core/repo_state.py) and the part of the runner    *)
(* and of the git command builder the controller drives.                   *)
(*                                                                         *)
(* Every operation of the program is an operator from a state record to a  *)
(* state record, so that a call made inside another call (a completion     *)
(* handler that enqueues a refresh, which starts the next item, whose      *)
(* action launches a command) is one step of the model, as it is one call  *)
(* of the program.                                                         *)
(***************************************************************************)
EXTENDS Integers, Sequences, FiniteSets, TLC

VARIABLES
    running,      \* CommandQueue._running
    queue,        \* CommandQueue._queue: the pending list
    pending,      \* RepoController._pending: run id -> PendingAction
    next_run_id,  \* CommandRunner._next_run_id
    handles,      \* CommandRunner._handles: run id -> CommandSpec of a run in flight
    repo_path,    \* RepoState._repo_path
    data,         \* RepoState: status, log, branches, stashes, tags, remotes, conflicts, diff_text
    last_error,   \* RepoState._last_error
    busy,         \* RepoState._busy
    enqueued,     \* history: every item handed to enqueue(), in order (index = item id)
    started,      \* history: every item whose action was invoked, in order
    active,       \* history: actions invoked since the last mark_idle()
    cause,        \* history: for each item of `enqueued`, the kind of the intent whose
                  \*          completion handler enqueued it (None: requested from outside)
    last,         \* history: the operation performed by the last step
    nops,         \* history: operations requested so far
    signalled,    \* history: the busy values the last step signalled to the state_changed
                  \*          subscribers, in order, with what was queued and outstanding then
    launched,     \* history: every run the runner started, in order, and whether its
                  \*          PendingAction was stored when command_started was emitted
    processes,       \* CommandRunner._processes: the run ids with a QProcess
    stdout_buffers,  \* CommandRunner._stdout_buffers: run id -> bytes
    stderr_buffers,  \* CommandRunner._stderr_buffers: run id -> bytes
    stopped,         \* the QProcess of each run in flight: asked to terminate, to kill, or neither
    events,          \* history: run id -> the signals the runner has emitted for it, in order
    rlast,           \* history: the runner call made by the last step and what it returned
    given,           \* the bytes handed to a parser
    parsed           \* what the parser called last gave: its result, or an exception

\* The runner's variables beyond the two the controller model uses.
rvars == <<processes, stdout_buffers, stderr_buffers, stopped, events, rlast>>

\* The variables of the parsers.
pvars == <<given, parsed>>

\* The variables of the queue, the controller and the repository state.
cvars == <<running, queue, pending, repo_path, data, last_error, busy,
           enqueued, started, active, cause, last, nops, launched, signalled>>

vars == <<running, queue, pending, next_run_id, handles, repo_path, data,
          last_error, busy, enqueued, started, active, cause, last, nops,
          launched, signalled,
          processes, stdout_buffers, stderr_buffers, stopped, events, rlast,
          given, parsed>>

(***************************************************************************)
(* Bounds of the model.                                                    *)
(***************************************************************************)
MaxItems == 3
MaxOps == 3
MaxKindOps == 2
MaxRuns == 2
MaxChunks == 2
MaxFragments == 3

(***************************************************************************)
(* Values.                                                                 *)
(***************************************************************************)
USER == "user"
BACKGROUND == "background"

None == "None"
NoValue == [type |-> "None"]

\* Bytes that are tokens of their own: NUL, and the record and unit
\* separators of the log and stash formats.
NUL == "\\x00"
RS == "\\x1e"
US == "\\x1f"

Keys == {"refresh", "stage"}
Priorities == {USER, BACKGROUND}

\* What a generic queued callable does when invoked: return at once and leave
\* the completion to a later mark_idle() ("async"), or call mark_idle() itself
\* before returning ("sync", as the callables of the queue's tests do).
Callables == {"async", "sync"}

\* The values an operation's callable closes over; NoArg where it has none.
NoArg ==
    [repo_path |-> None, path |-> None, staged |-> FALSE,
     set_upstream |-> FALSE, remote |-> None, branch |-> None]

(***************************************************************************)
(* CommandQueue (app/exec/command_queue.py).                               *)
(***************************************************************************)

\* QueueItem, with the enqueue stamp `id` that tells two items apart (the
\* program tells them apart by the identity of their callables), and `arg`,
\* the values the callable closes over.
QueueItem(id, key, priority, act, arg) ==
    [id |-> id, key |-> key, priority |-> priority, act |-> act, arg |-> arg]

\* enqueue, line 69: the items left after coalescing for `item`.
CoalesceKeepAll(q, item) == q
CoalesceOnUser(q, item) ==
    IF item.priority = USER
    THEN SelectSeq(q, LAMBDA x : x.key # item.key)
    ELSE q
Coalesce(q, item) ==
    IF item.priority = BACKGROUND
    THEN SelectSeq(q, LAMBDA x : x.key # item.key)
    ELSE q

\* _try_start_next, line 90: the guard.
CanStartWhileRunning(r, q) == q # <<>>
CanStart(r, q) == ~(r \/ q = <<>>)

UserItems(q) == SelectSeq(q, LAMBDA x : x.priority = USER)

\* _try_start_next, lines 95-96: the item to start.
SelectHead(q) == q[1]
SelectNewestUser(q) ==
    IF UserItems(q) # <<>> THEN UserItems(q)[Len(UserItems(q))] ELSE q[1]
SelectNext(q) ==
    IF UserItems(q) # <<>> THEN UserItems(q)[1] ELSE q[1]

\* list.remove: the list without the first element equal to `item`.
RemoveItem(q, item) ==
    LET i == CHOOSE j \in 1..Len(q) :
                 q[j] = item /\ \A k \in 1..(j - 1) : q[k] # item
    IN  SubSeq(q, 1, i - 1) \o SubSeq(q, i + 1, Len(q))

(***************************************************************************)
(* The state as one record, and the record written back to the variables.  *)
(* `exc` is set while an exception unwinds the call stack, `parser` names   *)
(* the parser the running completion handler has called, `escaped` is set  *)
(* when an exception left the body of the handler's try statement.         *)
(***************************************************************************)
St ==
    [running |-> running, queue |-> queue, pending |-> pending,
     next_run_id |-> next_run_id, handles |-> handles, repo_path |-> repo_path,
     data |-> data, last_error |-> last_error, busy |-> busy,
     enqueued |-> enqueued, started |-> started, active |-> active,
     launched |-> launched, signalled |-> <<>>,
     exc |-> FALSE, escaped |-> FALSE, parser |-> None]

Install(st) ==
    /\ running' = st.running
    /\ queue' = st.queue
    /\ pending' = st.pending
    /\ next_run_id' = st.next_run_id
    /\ handles' = st.handles
    /\ repo_path' = st.repo_path
    /\ data' = st.data
    /\ last_error' = st.last_error
    /\ busy' = st.busy
    /\ enqueued' = st.enqueued
    /\ started' = st.started
    /\ active' = st.active
    /\ launched' = st.launched
    /\ signalled' = st.signalled
    /\ UNCHANGED <<rvars, pvars>>

(***************************************************************************)
(* Git command builder (app/git/git_service.py, app/git/git_runner.py).    *)
(* The arguments the user interface passes are fixed samples, except those *)
(* an operation's behaviour depends on (the path opened, the push options). *)
(***************************************************************************)
RefreshKinds ==
    {"status", "log", "branches", "conflicts", "stashes", "tags", "remotes"}

MutatingKinds ==
    {"stage", "unstage", "discard", "commit", "fetch", "pull", "push",
     "switch_branch", "create_branch", "delete_branch", "stash_save",
     "stash_apply", "stash_pop", "stash_drop", "create_tag", "delete_tag",
     "push_tag", "push_tags", "add_remote", "remove_remote", "set_remote_url",
     "set_upstream"}

ParsedKinds == RefreshKinds \cup {"diff"}

AllKinds == {"validate_repo"} \cup ParsedKinds \cup MutatingKinds

\* Python truthiness of an optional string.
Falsy(p) == p = None \/ p = ""

\* GitService.push, lines 135-141: the precondition that raises.
PushRaises(arg) ==
    arg.set_upstream /\ (Falsy(arg.remote) \/ Falsy(arg.branch))

\* GitService.*: the git arguments of each intent.
GitArgs(kind, arg) ==
    CASE kind = "validate_repo" -> <<"rev-parse", "--is-inside-work-tree">>
      [] kind = "status" -> <<"status", "--porcelain=v2", "-b", "-z">>
      [] kind = "log" -> <<"log", "--date=iso-strict", "--pretty=format:LOG_FORMAT", "-n", "300">>
      [] kind = "branches" -> <<"branch", "--format=BRANCH_FORMAT">>
      [] kind = "conflicts" -> <<"diff", "--name-only", "--diff-filter=U">>
      [] kind = "stashes" -> <<"stash", "list", "--date=iso-strict", "--pretty=format:STASH_FORMAT">>
      [] kind = "tags" -> <<"tag", "--list">>
      [] kind = "remotes" -> <<"remote", "-v">>
      [] kind = "diff" -> <<"diff", "--no-color">>
                            \o (IF arg.staged THEN <<"--cached">> ELSE <<>>)
                            \o <<"--", arg.path>>
      [] kind = "stage" -> <<"add", "--", "f.txt">>
      [] kind = "unstage" -> <<"restore", "--staged", "--", "f.txt">>
      [] kind = "discard" -> <<"restore", "--", "f.txt">>
      [] kind = "commit" -> <<"commit", "-m", "msg">>
      [] kind = "fetch" -> <<"fetch">>
      [] kind = "pull" -> <<"pull", "--ff-only">>
      [] kind = "push" -> <<"push">>
                            \o (IF arg.set_upstream
                                THEN <<"-u", arg.remote, arg.branch>> ELSE <<>>)
      [] kind = "switch_branch" -> <<"switch", "name">>
      [] kind = "create_branch" -> <<"switch", "-c", "name", "HEAD">>
      [] kind = "delete_branch" -> <<"branch", "-d", "name">>
      [] kind = "stash_save" -> <<"stash", "push">>
      [] kind = "stash_apply" -> <<"stash", "apply">>
      [] kind = "stash_pop" -> <<"stash", "pop">>
      [] kind = "stash_drop" -> <<"stash", "drop">>
      [] kind = "create_tag" -> <<"tag", "name">>
      [] kind = "delete_tag" -> <<"tag", "-d", "name">>
      [] kind = "push_tag" -> <<"push", "origin", "name">>
      [] kind = "push_tags" -> <<"push", "origin", "--tags">>
      [] kind = "add_remote" -> <<"remote", "add", "name", "url">>
      [] kind = "remove_remote" -> <<"remote", "remove", "name">>
      [] kind = "set_remote_url" -> <<"remote", "set-url", "name", "url">>
      [] kind = "set_upstream" -> <<"branch", "--set-upstream-to", "origin/main">>

\* GitRunner.run, lines 44-48: the CommandSpec (the environment is the fixed
\* default of lines 18-22 and is left out).
CommandSpec(kind, arg, cwd) ==
    [args |-> <<"git">> \o GitArgs(kind, arg), cwd |-> cwd]

(***************************************************************************)
(* CommandRunner.run as the controller drives it                           *)
(* (app/exec/command_runner.py, lines 32-90): the handle takes the next    *)
(* run id, the process is started and command_started is emitted before    *)
(* run returns the handle to the action that stores the PendingAction.     *)
(***************************************************************************)
RunWithoutIncrement(st, spec) ==
    [st EXCEPT !.handles = (st.next_run_id :> spec) @@ @,
               !.launched = Append(@, [run_id |-> st.next_run_id,
                                       stored |-> st.next_run_id \in DOMAIN st.pending])]
Run(st, spec) ==
    [st EXCEPT !.next_run_id = @ + 1,
               !.handles = @ @@ (st.next_run_id :> spec),
               !.launched = Append(@, [run_id |-> st.next_run_id,
                                       stored |-> st.next_run_id \in DOMAIN st.pending])]

(***************************************************************************)
(* PendingAction (app/core/controller.py, lines 20-39) and the intents.    *)
(***************************************************************************)

\* The refresh flags each intent sets on its PendingAction (lines 215-524).
RefreshFlags(kind) ==
    CASE kind \in {"stage", "unstage", "discard", "pull", "stash_apply"} -> {"status"}
      [] kind = "commit" -> {"status", "log"}
      [] kind \in {"fetch", "push", "delete_branch", "set_upstream"} -> {"branches"}
      [] kind \in {"switch_branch", "create_branch"} -> {"status", "branches"}
      [] kind \in {"stash_save", "stash_pop"} -> {"status", "stashes"}
      [] kind = "stash_drop" -> {"stashes"}
      [] kind \in {"create_tag", "delete_tag"} -> {"tags"}
      [] kind \in {"add_remote", "remove_remote", "set_remote_url"} -> {"remotes"}
      [] OTHER -> {}

\* `item` is history: the id of the queue item whose action launched the run.
PendingActionWithoutLogRefresh(kind, arg, item) ==
    [kind |-> kind,
     repo_path |-> IF kind = "validate_repo" THEN arg.repo_path ELSE None,
     path |-> IF kind = "diff" THEN arg.path ELSE None,
     staged |-> IF kind = "diff" THEN arg.staged ELSE FALSE,
     refresh_status |-> "status" \in RefreshFlags(kind),
     refresh_branches |-> "branches" \in RefreshFlags(kind),
     refresh_log |-> FALSE,
     refresh_stashes |-> "stashes" \in RefreshFlags(kind),
     refresh_tags |-> "tags" \in RefreshFlags(kind),
     refresh_remotes |-> "remotes" \in RefreshFlags(kind),
     item |-> item]
PendingAction(kind, arg, item) ==
    [kind |-> kind,
     repo_path |-> IF kind = "validate_repo" THEN arg.repo_path ELSE None,
     path |-> IF kind = "diff" THEN arg.path ELSE None,
     staged |-> IF kind = "diff" THEN arg.staged ELSE FALSE,
     refresh_status |-> "status" \in RefreshFlags(kind),
     refresh_branches |-> "branches" \in RefreshFlags(kind),
     refresh_log |-> "log" \in RefreshFlags(kind),
     refresh_stashes |-> "stashes" \in RefreshFlags(kind),
     refresh_tags |-> "tags" \in RefreshFlags(kind),
     refresh_remotes |-> "remotes" \in RefreshFlags(kind),
     item |-> item]

\* The coalescing key each operation enqueues under.
KeyOf(kind) ==
    CASE kind = "validate_repo" -> "open_repo"
      [] kind = "status" -> "refresh_status"
      [] kind = "log" -> "refresh_log"
      [] kind = "branches" -> "refresh_branches"
      [] kind = "conflicts" -> "refresh_conflicts"
      [] kind = "stashes" -> "refresh_stashes"
      [] kind = "tags" -> "refresh_tags"
      [] kind = "remotes" -> "refresh_remotes"
      [] OTHER -> kind

\* The priority each operation enqueues at.
PriorityAlwaysUser(kind) == USER
PriorityOf(kind) == IF kind \in RefreshKinds THEN BACKGROUND ELSE USER

\* RepoState.set_busy (app/core/repo_state.py, lines 142-145): the flag is
\* set and state_changed is emitted, whatever the value was.
SetBusyWithoutSignal(st, value) == [st EXCEPT !.busy = value]
SetBusy(st, value) ==
    [st EXCEPT !.busy = value,
               !.signalled = Append(@, [busy |-> value,
                                        queued |-> Len(st.queue),
                                        outstanding |-> Cardinality(DOMAIN st.pending)])]

\* The `action` closure of an operation: launch the command, record the
\* PendingAction under its run id, set busy (e.g. lines 116-120, 303-311).
ActionWithoutBusy(item, st) ==
    LET cwd == IF item.act = "validate_repo" THEN item.arg.repo_path
                   ELSE st.repo_path
        st1 == Run(st, CommandSpec(item.act, item.arg, cwd))
    IN  [st1 EXCEPT !.pending = @ @@ (st.next_run_id :>
                                      PendingAction(item.act, item.arg, item.id))]
Action(item, st) ==
    IF item.act = "push" /\ PushRaises(item.arg)
    THEN [st EXCEPT !.exc = TRUE]
    ELSE LET cwd == IF item.act = "validate_repo" THEN item.arg.repo_path
                   ELSE st.repo_path
             st1 == Run(st, CommandSpec(item.act, item.arg, cwd))
         IN  SetBusy([st1 EXCEPT !.pending = @ @@ (st.next_run_id :>
                                           PendingAction(item.act, item.arg, item.id))],
                     TRUE)

(***************************************************************************)
(* CommandQueue: enqueue, mark_running, mark_idle, _try_start_next.        *)
(***************************************************************************)
RECURSIVE TryStartNext(_)

\* mark_idle, lines 81-86.
MarkIdle(st) == TryStartNext([st EXCEPT !.running = FALSE, !.active = 0])

\* item.run(), line 103.
RunItem(item, st) ==
    CASE item.act = "async" -> st
      [] item.act = "sync" -> MarkIdle(st)
      [] OTHER -> Action(item, st)

\* _try_start_next, lines 88-103. The history records, for the item started,
\* how many items had been enqueued by then and whether a USER item was queued.
TryStartNext(st) ==
    IF ~CanStart(st.running, st.queue)
    THEN st
    ELSE LET item == SelectNext(st.queue)
         IN  RunItem(item,
                     [st EXCEPT !.queue = RemoveItem(@, item),
                                !.running = TRUE,
                                !.active = @ + 1,
                                !.started = Append(@,
                                    [id |-> item.id, key |-> item.key,
                                     priority |-> item.priority,
                                     at |-> Len(st.enqueued),
                                     hadUser |-> UserItems(st.queue) # <<>>])])

\* enqueue, lines 63-74.
EnqueueWithoutStart(st, key, priority, act, arg) ==
    LET item == QueueItem(Len(st.enqueued) + 1, key, priority, act, arg)
    IN  [st EXCEPT !.queue = Append(Coalesce(@, item), item),
                   !.enqueued = Append(@, item)]
Enqueue(st, key, priority, act, arg) ==
    LET item == QueueItem(Len(st.enqueued) + 1, key, priority, act, arg)
    IN  TryStartNext([st EXCEPT !.queue = Append(Coalesce(@, item), item),
                                !.enqueued = Append(@, item)])

\* mark_running, lines 76-79.
MarkRunning(st) == [st EXCEPT !.running = TRUE]

(***************************************************************************)
(* The state after construction (CommandQueue.__init__, RepoController.    *)
(* __init__, CommandRunner.__init__, RepoState.__init__).                  *)
(***************************************************************************)
Fields ==
    {"status", "log", "branches", "stashes", "tags", "remotes", "conflicts",
     "diff_text"}

NoResult == [exit_code |-> 0, stdout |-> <<>>, stderr |-> <<>>]

\* `parser` is the parser the operation called, `threw` whether that parser
\* raised and `escaped` whether its exception left the handler's try body;
\* `raised` whether any exception left the operation.
LastOp(op, kind, rid, result, parser, threw, escaped, raised) ==
    [op |-> op, kind |-> kind, rid |-> rid, result |-> result,
     parser |-> parser, threw |-> threw, escaped |-> escaped, raised |-> raised]

\* What the last runner call was ("callback" for a signal of a process):
\* `own` tells a handle this runner issued from one it did not, `ret` is the
\* value returned.
RLast(op, rid, own, ret, raised) ==
    [op |-> op, run_id |-> rid, own |-> own, ret |-> ret, raised |-> raised]

\* `seq` grown to length n with c.
Extend(seq, n, c) == seq \o [i \in 1..(n - Len(seq)) |-> c]

Constructed ==
    /\ running = FALSE
    /\ queue = <<>>
    /\ pending = <<>>
    /\ next_run_id = 1
    /\ handles = <<>>
    /\ repo_path = None
    /\ data = [f \in Fields |-> NoValue]
    /\ last_error = NoValue
    /\ busy = FALSE
    /\ enqueued = <<>>
    /\ started = <<>>
    /\ active = 0
    /\ cause = <<>>
    /\ last = LastOp("init", None, 0, NoResult, None, FALSE, FALSE, FALSE)
    /\ nops = 0
    /\ launched = <<>>
    /\ signalled = <<>>
    /\ processes = {}
    /\ stdout_buffers = <<>>
    /\ stderr_buffers = <<>>
    /\ stopped = <<>>
    /\ events = <<>>
    /\ rlast = RLast("init", 0, FALSE, FALSE, FALSE)

\* No parser has been called.
NoParse == [parser |-> None, raised |-> FALSE, value |-> NoValue]

Init ==
    /\ Constructed
    /\ given = <<>>
    /\ parsed = NoParse

(***************************************************************************)
(* The queue on its own, driven by any sequence of enqueue(), mark_idle()  *)
(* and mark_running() calls with generic callables.                        *)
(***************************************************************************)
QEnqueue ==
    \E k \in Keys, p \in Priorities, a \in Callables :
        /\ Len(enqueued) < MaxItems
        /\ Install(Enqueue(St, k, p, a, NoArg))
        /\ cause' = Append(cause, None)
        /\ last' = LastOp("enqueue", a, 0, NoResult, None, FALSE, FALSE, FALSE)
        /\ nops' = nops

QMarkIdle ==
    /\ Install(MarkIdle(St))
    /\ cause' = cause
    /\ last' = LastOp("mark_idle", None, 0, NoResult, None, FALSE, FALSE, FALSE)
    /\ nops' = nops

QMarkRunning ==
    /\ Install(MarkRunning(St))
    /\ cause' = cause
    /\ last' = LastOp("mark_running", None, 0, NoResult, None, FALSE, FALSE, FALSE)
    /\ nops' = nops

QNext == QEnqueue \/ QMarkIdle \/ QMarkRunning

SpecQueue == Init /\ [][QNext]_vars

(***************************************************************************)
(* RepoState values and the errors (app/core/errors.py).                   *)
(***************************************************************************)
NotARepo(path) == [type |-> "NotARepo", path |-> path]
ParseError == [type |-> "ParseError"]
CommandFailed(args, result) ==
    [type |-> "CommandFailed", command_args |-> args,
     exit_code |-> result.exit_code, stdout |-> result.stdout,
     stderr |-> result.stderr]

\* The RepoState field a parsed intent fills.
FieldOf(kind) == IF kind = "diff" THEN "diff_text" ELSE kind

\* What a parser returns for a payload: the parsers are pure functions of the
\* payload, modelled here by the pair itself.
Parsed(kind, payload) == [type |-> "parsed", parser |-> kind, payload |-> payload]

\* bytes.decode("utf-8", errors="replace"): an invalid byte becomes U+FFFD.
Decode(bytes) ==
    [i \in 1..Len(bytes) |-> IF bytes[i] = "\\xff" THEN "\\ufffd" ELSE bytes[i]]

\* str.strip(): without the leading and trailing whitespace.
Whitespace == {" ", "\n", "\t", "\r", "\f", RS, US}
StripNothing(text) == text
Strip(text) ==
    LET ink == {i \in 1..Len(text) : text[i] \notin Whitespace}
    IN  IF ink = {} THEN <<>>
        ELSE SubSeq(text,
                    CHOOSE i \in ink : \A j \in ink : i <= j,
                    CHOOSE i \in ink : \A j \in ink : j <= i)

(***************************************************************************)
(* RepoController (app/core/controller.py).                                *)
(***************************************************************************)

\* Every operation: without a repo path all but open_repo set NotARepo and
\* return; otherwise the action is enqueued under the operation's key.
RequestWithoutGuard(st, kind, arg) ==
    Enqueue(st, KeyOf(kind), PriorityOf(kind), kind, arg)
Request(st, kind, arg) ==
    IF kind # "validate_repo" /\ Falsy(st.repo_path)
    THEN [st EXCEPT !.last_error = NotARepo("(none)")]
    ELSE Enqueue(st, KeyOf(kind), PriorityOf(kind), kind, arg)

\* A follow-up refresh of the completion handler, skipped while an exception
\* unwinds the handler (lines 636-647).
FollowUp(st, flag, kind) ==
    IF flag /\ ~st.exc THEN Request(st, kind, NoArg) ELSE st

\* _on_command_finished, lines 565-633: the routing on the intent's kind.
Route(st, action, result, raises) ==
    CASE action.kind = "validate_repo" ->
            IF Strip(Decode(result.stdout)) = <<"t", "r", "u", "e">>
            THEN Request([st EXCEPT !.repo_path = action.repo_path,
                                    !.last_error = NoValue],
                         "status", NoArg)
            ELSE [st EXCEPT !.last_error =
                      NotARepo(IF Falsy(action.repo_path) THEN ""
                               ELSE action.repo_path)]
      [] action.kind \in RefreshKinds ->
            IF raises
            THEN [st EXCEPT !.parser = action.kind, !.last_error = ParseError]
            ELSE [st EXCEPT !.parser = action.kind,
                            !.data[FieldOf(action.kind)] =
                                Parsed(action.kind, result.stdout),
                            !.last_error = NoValue]
      [] action.kind = "diff" ->
            IF raises
            THEN [st EXCEPT !.parser = action.kind, !.exc = TRUE]
            ELSE [st EXCEPT !.parser = action.kind,
                            !.data[FieldOf(action.kind)] =
                                Parsed(action.kind, result.stdout),
                            !.last_error = NoValue]
      [] OTHER -> st

\* _on_command_finished, lines 540-647: the body of the try statement.
HandlerBodyRefreshingOnFailure(st, handle, result, raises) ==
    IF handle.run_id \notin DOMAIN st.pending
    THEN st
    ELSE LET action == st.pending[handle.run_id]
             st1 == [st EXCEPT !.pending =
                         [r \in DOMAIN st.pending \ {handle.run_id} |-> st.pending[r]]]
             st2 == IF result.exit_code # 0
                    THEN [st1 EXCEPT !.last_error =
                              CommandFailed(handle.spec.args, result)]
                    ELSE Route(st1, action, result, raises)
         IN  FollowUp(FollowUp(FollowUp(FollowUp(FollowUp(FollowUp(st2,
                 action.refresh_status, "status"),
                 action.refresh_branches, "branches"),
                 action.refresh_log, "log"),
                 action.refresh_stashes, "stashes"),
                 action.refresh_tags, "tags"),
                 action.refresh_remotes, "remotes")
HandlerBody(st, handle, result, raises) ==
    IF handle.run_id \notin DOMAIN st.pending
    THEN st
    ELSE LET action == st.pending[handle.run_id]
             st1 == [st EXCEPT !.pending =
                         [r \in DOMAIN st.pending \ {handle.run_id} |-> st.pending[r]]]
         IN  IF result.exit_code # 0
             THEN [st1 EXCEPT !.last_error =
                       CommandFailed(handle.spec.args, result)]
             ELSE LET st2 == Route(st1, action, result, raises)
                  IN  FollowUp(FollowUp(FollowUp(FollowUp(FollowUp(FollowUp(st2,
                          action.refresh_status, "status"),
                          action.refresh_branches, "branches"),
                          action.refresh_log, "log"),
                          action.refresh_stashes, "stashes"),
                          action.refresh_tags, "tags"),
                          action.refresh_remotes, "remotes")

\* _on_command_finished, lines 538-651: the body, then the finally clause,
\* which runs also when the body returned early or raised.
OnCommandFinishedWithoutFinally(st, handle, result, raises) ==
    LET body == HandlerBody(st, handle, result, raises)
        done == IF body.exc
                THEN body
                ELSE MarkIdle(SetBusy(body, DOMAIN body.pending # {}))
    IN  [done EXCEPT !.escaped = body.exc]
OnCommandFinished(st, handle, result, raises) ==
    LET body == HandlerBody(st, handle, result, raises)
        done == MarkIdle(SetBusy([body EXCEPT !.exc = FALSE],
                                 DOMAIN body.pending # {}))
    IN  [done EXCEPT !.exc = body.exc \/ done.exc, !.escaped = body.exc]

(***************************************************************************)
(* CommandRunner._on_finished (app/exec/command_runner.py, lines 140-164): *)
(* the completion event is emitted, then the handle is released.           *)
(***************************************************************************)
RunnerFinished(st, rid, result, raises) ==
    LET handle == [run_id |-> rid, spec |-> st.handles[rid]]
        st1 == OnCommandFinished(st, handle, result, raises)
    IN  [st1 EXCEPT !.handles = [r \in DOMAIN st1.handles \ {rid} |-> st1.handles[r]]]

(***************************************************************************)
(* The inputs.                                                             *)
(***************************************************************************)
RepoPaths == {"/repo"}

\* exit code, stdout and stderr of a finished process.
Results ==
    { [exit_code |-> 0, stdout |-> <<"t", "r", "u", "e", "\n">>, stderr |-> <<>>],
      [exit_code |-> 0, stdout |-> <<"f", "a", "l", "s", "e">>, stderr |-> <<>>],
      [exit_code |-> 1, stdout |-> <<"o", "u", "t">>, stderr |-> <<"e", "r", "r">>] }

\* The options of a push: plain, with upstream, and with upstream but no remote.
PushArgs ==
    { NoArg,
      [NoArg EXCEPT !.set_upstream = TRUE, !.remote = "origin", !.branch = "main"],
      [NoArg EXCEPT !.set_upstream = TRUE, !.branch = "main"] }

ArgsOf(kind) ==
    CASE kind = "validate_repo" -> {[NoArg EXCEPT !.repo_path = p] : p \in RepoPaths}
      [] kind = "diff" -> {[NoArg EXCEPT !.path = "f.txt", !.staged = TRUE]}
      [] kind = "push" -> PushArgs
      [] OTHER -> {NoArg}

\* Every operation with every sample of its arguments.
AllRequests ==
    UNION {{[kind |-> kind, arg |-> arg] : arg \in ArgsOf(kind)} : kind \in AllKinds}

\* The operations the deeper specification draws from: open_repo, two
\* refreshes, two mutating intents and the push whose action raises.
CoreRequests ==
    {r \in AllRequests :
        \/ r.kind \in {"validate_repo", "status", "log", "commit", "stage"}
        \/ r.kind = "push" /\ PushRaises(r.arg)}

(***************************************************************************)
(* The controller with its queue and runner: operations requested by the   *)
(* user interface, and completion events delivered by the runner.          *)
(***************************************************************************)
Operation(kind, arg, bound) ==
    /\ nops < bound
    /\ LET st == Request(St, kind, arg)
       IN  /\ Install(st)
           /\ cause' = Extend(cause, Len(st.enqueued), None)
           /\ last' = LastOp("request", kind, 0, NoResult, None, FALSE, FALSE, st.exc)
    /\ nops' = nops + 1

CommandFinished(rid, result, raises) ==
    /\ rid \in DOMAIN handles
    /\ LET st == RunnerFinished(St, rid, result, raises)
       IN  /\ Install(st)
           /\ cause' = Extend(cause, Len(st.enqueued),
                              IF rid \in DOMAIN pending THEN pending[rid].kind ELSE None)
           /\ last' = LastOp("finished",
                             IF rid \in DOMAIN pending THEN pending[rid].kind ELSE None,
                             rid, result, st.parser,
                             st.parser # None /\ raises, st.escaped, st.exc)
    /\ nops' = nops

\* Whether the parser of a completion may raise: only a parser that is called.
MayRaise(rid, result) ==
    IF /\ rid \in DOMAIN pending
       /\ pending[rid].kind \in ParsedKinds
       /\ result.exit_code = 0
    THEN BOOLEAN ELSE {FALSE}

Completion ==
    \E rid \in DOMAIN handles, result \in Results :
        \E raises \in MayRaise(rid, result) :
            CommandFinished(rid, result, raises)

Next ==
    \/ \E r \in CoreRequests : Operation(r.kind, r.arg, MaxOps)
    \/ Completion

Spec == Init /\ [][Next]_vars

\* The delivery of a completion event, as the history records it: the last
\* operation becomes the completion handler run for a command in flight.
\* Within Next these are the Completion steps, and one is possible exactly
\* when a command is in flight.
Delivered ==
    \E rid \in DOMAIN handles, result \in Results :
        \E parser \in ParsedKinds \cup {None}, threw, escaped, raised \in BOOLEAN :
            last' = LastOp("finished",
                           IF rid \in DOMAIN pending THEN pending[rid].kind ELSE None,
                           rid, result, parser, threw, escaped, raised)

\* The same controller, every command in flight eventually delivering its
\* completion event (the process exits and the event loop delivers its
\* finished signal); the intents requested are at most MaxOps.
SpecFair == Init /\ [][Next]_vars /\ WF_last(Delivered)

NextKinds ==
    \/ \E r \in AllRequests : Operation(r.kind, r.arg, MaxKindOps)
    \/ Completion

SpecKinds == Init /\ [][NextKinds]_vars

(***************************************************************************)
(* Opening repositories: open_repo on two paths, with the outputs          *)
(* `git rev-parse --is-inside-work-tree` and a failing git can give.       *)
(***************************************************************************)
OpenPaths == {"/repo", "/other"}

OpenResults ==
    { [exit_code |-> 0, stdout |-> <<"t", "r", "u", "e", "\n">>, stderr |-> <<>>],
      [exit_code |-> 0, stdout |-> <<" ", "t", "r", "u", "e", "\r", "\n">>, stderr |-> <<>>],
      [exit_code |-> 0, stdout |-> <<"f", "a", "l", "s", "e", "\n">>, stderr |-> <<>>],
      [exit_code |-> 0, stdout |-> <<"t", "r", "u", "e", "\n", "x">>, stderr |-> <<>>],
      [exit_code |-> 0, stdout |-> <<"T", "r", "u", "e">>, stderr |-> <<>>],
      [exit_code |-> 0, stdout |-> <<>>, stderr |-> <<>>],
      [exit_code |-> 128, stdout |-> <<"t", "r", "u", "e", "\n">>, stderr |-> <<"e", "r", "r">>] }

OpenRequests ==
    {[kind |-> "validate_repo", arg |-> [NoArg EXCEPT !.repo_path = p]] : p \in OpenPaths}
        \cup {[kind |-> "stage", arg |-> NoArg]}

CompletionOpen ==
    \E rid \in DOMAIN handles, result \in OpenResults :
        \E raises \in MayRaise(rid, result) :
            CommandFinished(rid, result, raises)

NextOpen ==
    \/ \E r \in OpenRequests : Operation(r.kind, r.arg, MaxKindOps)
    \/ CompletionOpen

SpecOpen == Init /\ [][NextOpen]_vars

(***************************************************************************)
(* The controller on a runner it shares: the CommandRunner is built        *)
(* outside the controller (app/main.py, lines 12-18) and GitService        *)
(* exposes it, so a command the controller did not dispatch, such as       *)
(* GitService.version_raw (lines 293-295), completes on the same           *)
(* command_finished signal with a handle the controller holds no           *)
(* PendingAction for.                                                      *)
(***************************************************************************)
VersionSpec == [args |-> <<"git", "--version">>, cwd |-> None]

ForeignRun ==
    /\ nops < MaxOps
    /\ LET st == Run(St, VersionSpec)
       IN  /\ Install(st)
           /\ cause' = cause
           /\ last' = LastOp("run", None, next_run_id, NoResult, None, FALSE, FALSE, FALSE)
    /\ nops' = nops + 1

NextShared ==
    \/ \E r \in CoreRequests : Operation(r.kind, r.arg, MaxOps)
    \/ ForeignRun
    \/ Completion

SpecShared == Init /\ [][NextShared]_vars

(***************************************************************************)
(* CommandRunner (app/exec/command_runner.py) on its own: any number of    *)
(* runs in flight, their processes delivering output and exit in any       *)
(* order, and callers cancelling or killing by handle.                     *)
(***************************************************************************)

\* The signals: command_started, command_stdout, command_stderr and
\* command_finished, each with the run id of its handle.
Event(type, rid, chunk, exit_code, out, err) ==
    [type |-> type, run_id |-> rid, data |-> chunk,
     exit_code |-> exit_code, stdout |-> out, stderr |-> err]

\* A function without the key rid (dict.pop).
Without(f, rid) == [r \in DOMAIN f \ {rid} |-> f[r]]

\* dict.pop(run_id, bytearray()).
BufferOf(buffers, rid) == IF rid \in DOMAIN buffers THEN buffers[rid] ELSE <<>>

\* run, lines 42-90.
RunnerRunAllocatingFirst(op, spec) ==
    /\ next_run_id' = next_run_id + 1
    /\ handles' = handles @@ (next_run_id :> spec)
    /\ IF spec.args = <<>>
       THEN /\ UNCHANGED <<processes, stdout_buffers, stderr_buffers, stopped, events>>
            /\ rlast' = RLast(op, 0, FALSE, FALSE, TRUE)
       ELSE /\ processes' = processes \cup {next_run_id}
            /\ stdout_buffers' = stdout_buffers @@ (next_run_id :> <<>>)
            /\ stderr_buffers' = stderr_buffers @@ (next_run_id :> <<>>)
            /\ stopped' = stopped @@ (next_run_id :> "no")
            /\ events' = events @@ (next_run_id :> <<Event("started", next_run_id, <<>>, 0, <<>>, <<>>)>>)
            /\ rlast' = RLast(op, next_run_id, TRUE, FALSE, FALSE)
RunnerRun(op, spec) ==
    IF spec.args = <<>>
    THEN /\ UNCHANGED <<next_run_id, handles, processes, stdout_buffers,
                        stderr_buffers, stopped, events>>
         /\ rlast' = RLast(op, 0, FALSE, FALSE, TRUE)
    ELSE /\ next_run_id' = next_run_id + 1
         /\ handles' = handles @@ (next_run_id :> spec)
         /\ processes' = processes \cup {next_run_id}
         /\ stdout_buffers' = stdout_buffers @@ (next_run_id :> <<>>)
         /\ stderr_buffers' = stderr_buffers @@ (next_run_id :> <<>>)
         /\ stopped' = stopped @@ (next_run_id :> "no")
         /\ events' = events @@ (next_run_id :> <<Event("started", next_run_id, <<>>, 0, <<>>, <<>>)>>)
         /\ rlast' = RLast(op, next_run_id, TRUE, FALSE, FALSE)

\* GitService.push, lines 127-142, through GitRunner.run.
ServicePush(arg) ==
    IF PushRaises(arg)
    THEN /\ UNCHANGED <<next_run_id, handles, processes, stdout_buffers,
                        stderr_buffers, stopped, events>>
         /\ rlast' = RLast("push", 0, FALSE, FALSE, TRUE)
    ELSE RunnerRun("push", CommandSpec("push", arg, "/repo"))

\* _on_stdout, lines 112-124: `chunk` is what readAllStandardOutput returns.
OnStdoutSharedBuffer(rid, chunk) ==
    /\ rlast' = RLast("callback", 0, FALSE, FALSE, FALSE)
    /\ UNCHANGED <<next_run_id, handles, processes, stderr_buffers, stopped>>
    /\ IF rid \notin processes \/ rid \notin DOMAIN handles \/ chunk = <<>>
       THEN UNCHANGED <<stdout_buffers, events>>
       ELSE /\ stdout_buffers' = [r \in DOMAIN stdout_buffers |-> stdout_buffers[r] \o chunk]
            /\ events' = [events EXCEPT ![rid] = Append(@, Event("stdout", rid, chunk, 0, <<>>, <<>>))]
OnStdout(rid, chunk) ==
    /\ rlast' = RLast("callback", 0, FALSE, FALSE, FALSE)
    /\ UNCHANGED <<next_run_id, handles, processes, stderr_buffers, stopped>>
    /\ IF rid \notin processes \/ rid \notin DOMAIN handles \/ chunk = <<>>
       THEN UNCHANGED <<stdout_buffers, events>>
       ELSE /\ stdout_buffers' = [stdout_buffers EXCEPT ![rid] = @ \o chunk]
            /\ events' = [events EXCEPT ![rid] = Append(@, Event("stdout", rid, chunk, 0, <<>>, <<>>))]

\* _on_stderr, lines 126-138.
OnStderr(rid, chunk) ==
    /\ rlast' = RLast("callback", 0, FALSE, FALSE, FALSE)
    /\ UNCHANGED <<next_run_id, handles, processes, stdout_buffers, stopped>>
    /\ IF rid \notin processes \/ rid \notin DOMAIN handles \/ chunk = <<>>
       THEN UNCHANGED <<stderr_buffers, events>>
       ELSE /\ stderr_buffers' = [stderr_buffers EXCEPT ![rid] = @ \o chunk]
            /\ events' = [events EXCEPT ![rid] = Append(@, Event("stderr", rid, chunk, 0, <<>>, <<>>))]

\* _on_finished, lines 140-164.
OnFinished(rid, exit_code) ==
    /\ rlast' = RLast("callback", 0, FALSE, FALSE, FALSE)
    /\ next_run_id' = next_run_id
    /\ IF rid \notin DOMAIN handles
       THEN UNCHANGED <<handles, processes, stdout_buffers, stderr_buffers,
                        stopped, events>>
       ELSE /\ events' = [events EXCEPT ![rid] =
                               Append(@, Event("finished", rid, <<>>, exit_code,
                                               BufferOf(stdout_buffers, rid),
                                               BufferOf(stderr_buffers, rid)))]
            /\ stdout_buffers' = Without(stdout_buffers, rid)
            /\ stderr_buffers' = Without(stderr_buffers, rid)
            /\ processes' = processes \ {rid}
            /\ stopped' = Without(stopped, rid)
            /\ handles' = Without(handles, rid)

\* cancel, lines 92-100, and kill, lines 102-110: `how` is "terminate" or
\* "kill"; the process is looked up by the run id of the handle.
Stop(op, how, rid, own) ==
    /\ UNCHANGED <<next_run_id, handles, processes, stdout_buffers,
                   stderr_buffers, events>>
    /\ IF rid \notin processes
       THEN /\ stopped' = stopped
            /\ rlast' = RLast(op, rid, own, FALSE, FALSE)
       ELSE /\ stopped' = [stopped EXCEPT ![rid] = how]
            /\ rlast' = RLast(op, rid, own, TRUE, FALSE)

(***************************************************************************)
(* The inputs of the runner.                                               *)
(***************************************************************************)
\* A specification with a program, and one with an empty argument vector.
RunSpecs ==
    { [args |-> <<"git", "status">>, cwd |-> "/repo"],
      [args |-> <<>>, cwd |-> None] }

\* The options of GitService.push, with and without what set_upstream needs.
ServicePushArgs ==
    PushArgs \cup
    { [NoArg EXCEPT !.set_upstream = TRUE, !.remote = "origin"],
      [NoArg EXCEPT !.set_upstream = TRUE, !.remote = "", !.branch = "main"] }

\* What a read of a process channel returns.
Chunks == {<<>>, <<"a">>, <<"b", "c">>}

ExitCodes == {0, 1}

\* The run ids this runner has issued.
Issued == 1..(next_run_id - 1)

\* The handles a caller can pass: those this runner issued, and handles it
\* did not issue (of another CommandRunner, whose ids also start at 1, or
\* built by the caller), with any run id.
Handles ==
    {[run_id |-> r, own |-> TRUE] : r \in Issued}
        \cup {[run_id |-> r, own |-> FALSE] : r \in 1..(MaxRuns + 1)}

RRun ==
    /\ next_run_id <= MaxRuns
    /\ \E spec \in RunSpecs : RunnerRun("run", spec)
    /\ UNCHANGED <<cvars, pvars>>

RPush ==
    /\ next_run_id <= MaxRuns
    /\ \E arg \in ServicePushArgs : ServicePush(arg)
    /\ UNCHANGED <<cvars, pvars>>

\* The output signals emitted so far for run rid, and their number over
\* the runs of S.
OutputEvents(rid) == SelectSeq(events[rid], LAMBDA e : e.type \in {"stdout", "stderr"})

RECURSIVE OutputCount(_)
OutputCount(S) ==
    IF S = {} THEN 0
    ELSE LET r == CHOOSE x \in S : TRUE
         IN  Len(OutputEvents(r)) + OutputCount(S \ {r})

ROutput ==
    /\ OutputCount(DOMAIN events) < MaxChunks
    /\ \E rid \in Issued, chunk \in Chunks :
           OnStdout(rid, chunk) \/ OnStderr(rid, chunk)
    /\ UNCHANGED <<cvars, pvars>>

RFinished ==
    /\ \E rid \in Issued, exit_code \in ExitCodes : OnFinished(rid, exit_code)
    /\ UNCHANGED <<cvars, pvars>>

RCancel ==
    /\ \E h \in Handles : Stop("cancel", "terminate", h.run_id, h.own)
    /\ UNCHANGED <<cvars, pvars>>

RKill ==
    /\ \E h \in Handles : Stop("kill", "kill", h.run_id, h.own)
    /\ UNCHANGED <<cvars, pvars>>

NextRunner == RRun \/ RPush \/ ROutput \/ RFinished \/ RCancel \/ RKill

SpecRunner == Init /\ [][NextRunner]_vars

\* The runner without cancel and kill: launches with good and bad
\* arguments, the output of the runs in any interleaving, and their exits.
NextOutput == RRun \/ RPush \/ ROutput \/ RFinished

SpecOutput == Init /\ [][NextOutput]_vars

(***************************************************************************)
(* Bytes and text (the Python built-ins the parsers call). A byte string   *)
(* and a str are sequences of one-character tokens; NUL, RS, US and the    *)
(* byte 0xff, which is not valid UTF-8, are tokens of their own.           *)
(***************************************************************************)
\* Python's None where the code holds a str or None.
NoText == <<None>>

\* What a call gives: the value it returns, or an exception.
Returned(value) == [raised |-> FALSE, value |-> value]
Raised == [raised |-> TRUE, value |-> NoValue]

\* try: ... except ...: the default takes the place of an exception.
ExceptNothing(r, default) == r
Except(r, default) == IF r.raised THEN Returned(default) ELSE r

\* The position of the first token of s that is in cs, 0 when there is none.
Find(s, cs) ==
    LET at == {i \in 1..Len(s) : s[i] \in cs}
    IN  IF at = {} THEN 0 ELSE CHOOSE i \in at : \A j \in at : i <= j

\* s.split(sep, maxsplit) for a one-character sep; no limit when maxsplit < 0.
RECURSIVE SplitMax(_, _, _)
SplitMax(s, sep, maxsplit) ==
    LET i == Find(s, {sep})
    IN  IF i = 0 \/ maxsplit = 0 THEN <<s>>
        ELSE <<SubSeq(s, 1, i - 1)>>
                 \o SplitMax(SubSeq(s, i + 1, Len(s)), sep, maxsplit - 1)

Split(s, sep) == SplitMax(s, sep, -1)

\* str.strip(chars) and str.strip(): RS and US are whitespace to Python.
StripOf(text, cs) ==
    LET ink == {i \in 1..Len(text) : text[i] \notin cs}
    IN  IF ink = {} THEN <<>>
        ELSE SubSeq(text,
                    CHOOSE i \in ink : \A j \in ink : i <= j,
                    CHOOSE i \in ink : \A j \in ink : j <= i)

\* str.split(): the runs of tokens between whitespace.
RECURSIVE SplitWhitespace(_)
SplitWhitespace(s) ==
    LET i == Find(s, Whitespace)
    IN  IF s = <<>> THEN <<>>
        ELSE IF i = 0 THEN <<s>>
        ELSE IF i = 1 THEN SplitWhitespace(Tail(s))
        ELSE <<SubSeq(s, 1, i - 1)>> \o SplitWhitespace(SubSeq(s, i + 1, Len(s)))

\* str.splitlines(): "\r\n" is one line break, RS is a line break too, and
\* a final line break opens no further line.
LineBreaks == {"\n", "\r", "\f", RS}

RECURSIVE SplitLines(_)
SplitLines(s) ==
    LET i == Find(s, LineBreaks)
        j == IF s[i] = "\r" /\ i < Len(s) /\ s[i + 1] = "\n" THEN i + 1 ELSE i
    IN  IF s = <<>> THEN <<>>
        ELSE IF i = 0 THEN <<s>>
        ELSE <<SubSeq(s, 1, i - 1)>> \o SplitLines(SubSeq(s, j + 1, Len(s)))

StartsWith(s, prefix) == Len(s) >= Len(prefix) /\ SubSeq(s, 1, Len(prefix)) = prefix
EndsWith(s, suffix) ==
    Len(s) >= Len(suffix) /\ SubSeq(s, Len(s) - Len(suffix) + 1, Len(s)) = suffix
Contains(s, part) ==
    \E i \in 0..(Len(s) - Len(part)) : SubSeq(s, i + 1, i + Len(part)) = part

\* sep.join(parts).
RECURSIVE Join(_, _)
Join(parts, sep) ==
    IF parts = <<>> THEN <<>>
    ELSE IF Len(parts) = 1 THEN parts[1]
    ELSE parts[1] \o <<sep>> \o Join(Tail(parts), sep)

\* str.lower().
UpperCase == <<"A", "B", "C", "D", "E", "F", "G", "H", "I", "J", "K", "L", "M", "N", "O", "P",
        "Q", "R", "S", "T", "U", "V", "W", "X", "Y", "Z">>
LowerCase == <<"a", "b", "c", "d", "e", "f", "g", "h", "i", "j", "k", "l", "m", "n", "o", "p",
        "q", "r", "s", "t", "u", "v", "w", "x", "y", "z">>
Lower(s) ==
    [i \in 1..Len(s) |->
        IF \E k \in 1..Len(UpperCase) : UpperCase[k] = s[i]
        THEN LowerCase[CHOOSE k \in 1..Len(UpperCase) : UpperCase[k] = s[i]]
        ELSE s[i]]

\* int(text): surrounding whitespace, one sign, digits, and single
\* underscores between digits; anything else is a ValueError.
Digits == <<"0", "1", "2", "3", "4", "5", "6", "7", "8", "9">>
IsDigit(c) == \E d \in 1..Len(Digits) : Digits[d] = c

RECURSIVE Number(_, _)
Number(s, n) ==
    IF s = <<>> THEN n
    ELSE Number(Tail(s),
                IF Head(s) = "_" THEN n
                ELSE 10 * n + (CHOOSE d \in 1..Len(Digits) : Digits[d] = Head(s)) - 1)

int(text) ==
    LET t == Strip(text)
        signed == t # <<>> /\ t[1] \in {"+", "-"}
        u == IF signed THEN Tail(t) ELSE t
        valid ==
            /\ u # <<>>
            /\ \A i \in 1..Len(u) :
                   \/ IsDigit(u[i])
                   \/ /\ u[i] = "_"
                      /\ 1 < i /\ i < Len(u)
                      /\ IsDigit(u[i - 1]) /\ IsDigit(u[i + 1])
    IN  IF ~valid THEN Raised
        ELSE IF signed /\ t[1] = "-" THEN Returned(0 - Number(u, 0))
        ELSE Returned(Number(u, 0))

\* parts[n] of a Python list (n counted from 0): an IndexError past its end.
Item(parts, n) == IF n < Len(parts) THEN Returned(parts[n + 1]) ELSE Raised

\* a, b, ... = fields[:n]: a ValueError unless the slice has n elements.
Unpack(fields, n) ==
    LET slice == SubSeq(fields, 1, IF Len(fields) < n THEN Len(fields) ELSE n)
    IN  IF Len(slice) = n THEN Returned(slice) ELSE Raised

\* bool(text) of a str or None.
Truthy(text) == text # NoText /\ text # <<>>

(***************************************************************************)
(* The status parser (app/git/parse_status.py).                            *)
(***************************************************************************)
FileChange(path, staged_status, unstaged_status, orig_path) ==
    [path |-> path, staged_status |-> staged_status,
     unstaged_status |-> unstaged_status, orig_path |-> orig_path]

BranchInfo(name, head_oid, upstream, ahead, behind) ==
    [name |-> name, head_oid |-> head_oid, upstream |-> upstream,
     ahead |-> ahead, behind |-> behind]

RepoStatus(branch, staged, unstaged, untracked, conflicted) ==
    [branch |-> branch, staged |-> staged, unstaged |-> unstaged,
     untracked |-> untracked, conflicted |-> conflicted]

\* The locals of parse_status_porcelain_v2 before its loop; i counts the
\* records from 1.
StatusLocals ==
    [i |-> 1, staged |-> <<>>, unstaged |-> <<>>, untracked |-> <<>>,
     conflicted |-> <<>>, branch_name |-> NoText, branch_oid |-> NoText,
     branch_upstream |-> NoText, ahead |-> 0, behind |-> 0,
     branch_seen |-> FALSE, raised |-> FALSE]

split_xy(xy) == IF Len(xy) >= 2 THEN <<xy[1], xy[2]>> ELSE <<".", ".">>

add_by_xyToBoth(acc, change, xy) ==
    [acc EXCEPT !.staged = Append(@, change), !.unstaged = Append(@, change)]
add_by_xy(acc, change, xy) ==
    LET staged == IF split_xy(xy)[1] # "." THEN Append(acc.staged, change)
                  ELSE acc.staged
        unstaged == IF split_xy(xy)[2] # "." THEN Append(acc.unstaged, change)
                    ELSE acc.unstaged
    IN  [acc EXCEPT !.staged = staged, !.unstaged = unstaged]

\* The loop over the tokens of a "# branch.ab" value.
RECURSIVE BranchAb(_, _)
BranchAb(tokens, acc) ==
    IF tokens = <<>> \/ acc.raised THEN acc
    ELSE LET token == Head(tokens)
             n == Except(int(Tail(token)), 0)
         IN  BranchAb(Tail(tokens),
                 IF token[1] = "+"
                 THEN [acc EXCEPT !.ahead = n.value, !.raised = n.raised]
                 ELSE IF token[1] = "-"
                 THEN [acc EXCEPT !.behind = n.value, !.raised = n.raised]
                 ELSE acc)

\* A line that starts with "# ".
BranchHeader(acc, line) ==
    LET seen == [acc EXCEPT !.branch_seen = TRUE]
        parts == SplitMax(line, " ", 2)
        key == parts[2]
        value == parts[3]
    IN  IF Len(parts) < 3 THEN seen
        ELSE IF key = <<"b", "r", "a", "n", "c", "h", ".", "o", "i", "d">>
        THEN IF value \notin {<<"(", "i", "n", "i", "t", "i", "a", "l", ")">>, <<"(", "u", "n",
                "k", "n", "o", "w", "n", ")">>}
             THEN [seen EXCEPT !.branch_oid = value] ELSE seen
        ELSE IF key = <<"b", "r", "a", "n", "c", "h", ".", "h", "e", "a", "d">>
        THEN IF value \notin {<<"(", "d", "e", "t", "a", "c", "h", "e", "d", ")">>, <<"(", "u",
                "n", "k", "n", "o", "w", "n", ")">>}
             THEN [seen EXCEPT !.branch_name = value] ELSE seen
        ELSE IF key = <<"b", "r", "a", "n", "c", "h", ".", "u", "p", "s", "t", "r", "e", "a", "m">>
        THEN [seen EXCEPT !.branch_upstream = value]
        ELSE IF key = <<"b", "r", "a", "n", "c", "h", ".", "a", "b">>
        THEN BranchAb(SplitWhitespace(value), seen)
        ELSE seen

\* A record of type "1".
Ordinary(acc, line) ==
    LET parts == SplitMax(line, " ", 8)
        xy == IF Len(parts) > 1 THEN parts[2] ELSE <<".", ".">>
        path == IF Len(parts) > 8 THEN parts[9] ELSE <<>>
    IN  add_by_xy(acc, FileChange(path, split_xy(xy)[1], split_xy(xy)[2], NoText), xy)

\* A record of type "2": the record after it, when there is one and it is
\* not empty, is the original path and is skipped.
RenameWithoutSkip(records, acc, line) ==
    LET parts == SplitMax(line, " ", 9)
        xy == IF Len(parts) > 1 THEN parts[2] ELSE <<".", ".">>
        path == IF Len(parts) > 9 THEN parts[10] ELSE <<>>
        follows == acc.i + 1 <= Len(records) /\ records[acc.i + 1] # <<>>
        orig_path == IF follows THEN Decode(records[acc.i + 1]) ELSE NoText
    IN  add_by_xy(acc, FileChange(path, split_xy(xy)[1], split_xy(xy)[2], orig_path), xy)
Rename(records, acc, line) ==
    LET parts == SplitMax(line, " ", 9)
        xy == IF Len(parts) > 1 THEN parts[2] ELSE <<".", ".">>
        path == IF Len(parts) > 9 THEN parts[10] ELSE <<>>
        follows == acc.i + 1 <= Len(records) /\ records[acc.i + 1] # <<>>
        orig_path == IF follows THEN Decode(records[acc.i + 1]) ELSE NoText
        skipped == IF follows THEN [acc EXCEPT !.i = @ + 1] ELSE acc
    IN  add_by_xy(skipped,
                  FileChange(path, split_xy(xy)[1], split_xy(xy)[2], orig_path), xy)

\* A record of type "u".
Unmerged(acc, line) ==
    LET parts == SplitMax(line, " ", 10)
        xy == IF Len(parts) > 1 THEN parts[2] ELSE <<"U", "U">>
        path == IF Len(parts) > 10 THEN parts[11] ELSE <<>>
    IN  [acc EXCEPT !.conflicted =
            Append(@, FileChange(path, split_xy(xy)[1], split_xy(xy)[2], NoText))]

\* A record of type "?".
Untracked(acc, line) ==
    LET path == IF Len(line) > 2 THEN SubSeq(line, 3, Len(line)) ELSE <<>>
    IN  [acc EXCEPT !.untracked = Append(@, FileChange(path, "?", "?", NoText))]

\* The while loop: one record, then the rest.
RECURSIVE StatusRecords(_, _)
StatusRecords(records, acc) ==
    IF acc.raised \/ acc.i > Len(records) THEN acc
    ELSE LET record == records[acc.i]
             line == Decode(record)
             after ==
                 IF record = <<>> THEN acc
                 ELSE IF StartsWith(line, <<"#", " ">>) THEN BranchHeader(acc, line)
                 ELSE IF line[1] = "1" THEN Ordinary(acc, line)
                 ELSE IF line[1] = "2" THEN Rename(records, acc, line)
                 ELSE IF line[1] = "u" THEN Unmerged(acc, line)
                 ELSE IF line[1] = "?" THEN Untracked(acc, line)
                 ELSE acc
         IN  StatusRecords(records, [after EXCEPT !.i = @ + 1])

\* After the loop: the branch, when a header or any of its fields was seen.
StatusBranch(acc) ==
    IF \/ acc.branch_seen
       \/ Truthy(acc.branch_name) \/ Truthy(acc.branch_oid)
       \/ Truthy(acc.branch_upstream)
       \/ acc.ahead # 0 \/ acc.behind # 0
    THEN BranchInfo(acc.branch_name, acc.branch_oid, acc.branch_upstream,
                    acc.ahead, acc.behind)
    ELSE NoValue

StatusResult(acc) ==
    IF acc.raised THEN Raised
    ELSE Returned(RepoStatus(StatusBranch(acc), acc.staged, acc.unstaged,
                             acc.untracked, acc.conflicted))

parse_status_porcelain_v2(payload) ==
    StatusResult(StatusRecords(Split(payload, NUL), StatusLocals))

(***************************************************************************)
(* The log and stash parsers (app/git/parse_log.py, parse_stash.py).       *)
(***************************************************************************)
Commit(oid, parents, author_name, author_email, author_date, subject) ==
    [oid |-> oid, parents |-> parents, author_name |-> author_name,
     author_email |-> author_email, author_date |-> author_date,
     subject |-> subject]

StashEntry(oid, selector, summary, date) ==
    [oid |-> oid, selector |-> selector, summary |-> summary, date |-> date]

\* The records of a payload that are not empty.
Records(payload) == SelectSeq(Split(Decode(payload), RS), LAMBDA record : record # <<>>)

\* The fields of a record, padded to n and cut to the first n.
FieldsOfWithoutPadding(record, n) == Unpack(Split(record, US), n)
FieldsOf(record, n) == Unpack(Extend(Split(record, US), n, <<>>), n)

\* The results of a loop whose body may raise.
Collected(rows) ==
    IF \E i \in 1..Len(rows) : rows[i].raised THEN Raised
    ELSE Returned([i \in 1..Len(rows) |-> rows[i].value])

parse_log_records(payload) ==
    LET records == Records(payload)
        CommitOf(record) ==
            LET fields == FieldsOf(record, 6)
                f == fields.value
            IN  IF fields.raised THEN Raised
                ELSE Returned(Commit(f[1],
                                     IF f[2] # <<>> THEN SplitWhitespace(f[2]) ELSE <<>>,
                                     f[3], f[4], f[5], f[6]))
    IN  Collected([i \in 1..Len(records) |-> CommitOf(records[i])])

parse_stash_records(payload) ==
    LET records == Records(payload)
        StashOf(record) ==
            LET fields == FieldsOf(record, 4)
                f == fields.value
            IN  IF fields.raised THEN Raised
                ELSE Returned(StashEntry(f[1], f[2], f[3], f[4]))
    IN  Collected([i \in 1..Len(records) |-> StashOf(records[i])])

(***************************************************************************)
(* The line parsers (app/git/parse_branches.py, parse_remote_branches.py,  *)
(* parse_conflicts.py, parse_tags.py, parse_remotes.py, parse_diff.py).    *)
(***************************************************************************)
Branch(name, is_current, upstream, ahead, behind, gone) ==
    [name |-> name, is_current |-> is_current, upstream |-> upstream,
     ahead |-> ahead, behind |-> behind, gone |-> gone]

RemoteBranch(remote, name, full_name) ==
    [remote |-> remote, name |-> name, full_name |-> full_name]

Tag(name) == [name |-> name]

Remote(name, fetch_url, push_url) ==
    [name |-> name, fetch_url |-> fetch_url, push_url |-> push_url]

\* int(token.split()[1]).
SecondAsInt(token) ==
    LET part == Item(SplitWhitespace(token), 1)
    IN  IF part.raised THEN Raised ELSE int(part.value)

\* The loop over the comma-separated tokens of a track field.
RECURSIVE TrackCounts(_, _)
TrackCounts(tokens, acc) ==
    IF tokens = <<>> \/ acc.raised THEN acc
    ELSE LET token == Strip(Head(tokens))
             n == Except(SecondAsInt(token), 0)
         IN  TrackCounts(Tail(tokens),
                 IF StartsWith(token, <<"a", "h", "e", "a", "d", " ">>)
                 THEN [acc EXCEPT !.ahead = n.value, !.raised = n.raised]
                 ELSE IF StartsWith(token, <<"b", "e", "h", "i", "n", "d", " ">>)
                 THEN [acc EXCEPT !.behind = n.value, !.raised = n.raised]
                 ELSE acc)

\* track_raw stripped, and without its brackets when it has both.
TrackOf(stripped) ==
    IF StartsWith(stripped, <<"[">>) /\ EndsWith(stripped, <<"]">>)
    THEN SubSeq(stripped, 2, Len(stripped) - 1)
    ELSE stripped

\* ahead and behind of a track field.
CountsOf(track) ==
    IF track # <<>>
    THEN TrackCounts(Split(track, ","), [ahead |-> 0, behind |-> 0, raised |-> FALSE])
    ELSE [ahead |-> 0, behind |-> 0, raised |-> FALSE]

BranchRow(name, head_flag, upstream_raw, track, counts) ==
    IF counts.raised THEN Raised
    ELSE Returned(Branch(name,
                         Strip(head_flag) = <<"*">>,
                         IF upstream_raw # <<>> THEN upstream_raw ELSE NoText,
                         counts.ahead, counts.behind,
                         track # <<>> /\ Contains(track, <<"g", "o", "n", "e">>)))

\* One line, split on "|": a missing field is the empty string.
BranchOf(parts, track) ==
    BranchRow(IF Len(parts) > 0 THEN parts[1] ELSE <<>>,
              IF Len(parts) > 1 THEN parts[2] ELSE <<>>,
              IF Len(parts) > 2 THEN parts[3] ELSE <<>>,
              track, CountsOf(track))

BranchLine(parts) ==
    BranchOf(parts, TrackOf(Strip(IF Len(parts) > 3 THEN parts[4] ELSE <<>>)))

BranchLines(lines) ==
    Collected([i \in 1..Len(lines) |-> BranchLine(Split(lines[i], "|"))])

parse_branches(payload) ==
    BranchLines(SelectSeq(SplitLines(Decode(payload)), LAMBDA line : line # <<>>))

parse_remote_branches(payload) ==
    LET names == [i \in 1..Len(SplitLines(Decode(payload))) |->
                     Strip(SplitLines(Decode(payload))[i])]
        Kept(name) ==
            /\ name # <<>>
            /\ ~Contains(name, <<"-", ">">>)
            /\ Contains(name, <<"/">>)
            /\ SplitMax(name, "/", 1)[1] # <<>>
            /\ SplitMax(name, "/", 1)[2] # <<>>
            /\ SplitMax(name, "/", 1)[2] # <<"H", "E", "A", "D">>
        kept == SelectSeq(names, Kept)
    IN  Returned([i \in 1..Len(kept) |->
                     RemoteBranch(SplitMax(kept[i], "/", 1)[1],
                                  SplitMax(kept[i], "/", 1)[2], kept[i])])

\* The stripped lines of a payload that are not empty.
StrippedLines(payload) ==
    SelectSeq([i \in 1..Len(SplitLines(Decode(payload))) |->
                  Strip(SplitLines(Decode(payload))[i])],
              LAMBDA line : line # <<>>)

parse_conflict_paths(payload) == Returned(StrippedLines(payload))

parse_tags(payload) ==
    Returned([i \in 1..Len(StrippedLines(payload)) |-> Tag(StrippedLines(payload)[i])])

\* The loop of parse_remotes: `remotes` is the dict, in insertion order.
RECURSIVE Remotes(_, _)
Remotes(lines, remotes) ==
    IF lines = <<>> THEN remotes
    ELSE LET line == Head(lines)
             parts == SplitWhitespace(line)
             name == parts[1]
             kind == Lower(StripOf(parts[Len(parts)], {"(", ")"}))
             url == Join(SubSeq(parts, 2, Len(parts) - 1), " ")
             at == {i \in 1..Len(remotes) : remotes[i].name = name}
             current == IF at = {} THEN Remote(name, NoText, NoText)
                        ELSE remotes[CHOOSE i \in at : TRUE]
             updated == IF kind = <<"f", "e", "t", "c", "h">>
                        THEN Remote(name, url, current.push_url)
                        ELSE Remote(name, current.fetch_url, url)
         IN  Remotes(Tail(lines),
                 IF Strip(line) = <<>> \/ Len(parts) < 3 THEN remotes
                 ELSE IF kind \notin {<<"f", "e", "t", "c", "h">>, <<"p", "u", "s",
                         "h">>} THEN remotes
                 ELSE IF at = {} THEN Append(remotes, updated)
                 ELSE [remotes EXCEPT ![CHOOSE i \in at : TRUE] = updated])

parse_remotes(payload) == Returned(Remotes(SplitLines(Decode(payload)), <<>>))

parse_diff_text(payload) == Returned(Decode(payload))

(***************************************************************************)
(* The parsers on their own: a payload, and any parser applied to it, as   *)
(* GitService.parse_* does (app/git/git_service.py).                       *)
(***************************************************************************)
Parsers ==
    {"status", "log", "branches", "remote_branches", "diff", "conflicts",
     "stashes", "tags", "remotes"}

Parse(parser, bytes) ==
    CASE parser = "status" -> parse_status_porcelain_v2(bytes)
      [] parser = "log" -> parse_log_records(bytes)
      [] parser = "branches" -> parse_branches(bytes)
      [] parser = "remote_branches" -> parse_remote_branches(bytes)
      [] parser = "diff" -> parse_diff_text(bytes)
      [] parser = "conflicts" -> parse_conflict_paths(bytes)
      [] parser = "stashes" -> parse_stash_records(bytes)
      [] parser = "tags" -> parse_tags(bytes)
      [] parser = "remotes" -> parse_remotes(bytes)

\* The pieces payloads are made of: records and lines as git writes them
\* (`git status --porcelain=v2 -b -z`, the log and stash formats, `git
\* branch --format`, `git branch -r`, `git remote -v`), cut and damaged
\* ones, separators, and a byte that is not UTF-8.
StatusFragments ==
    { <<NUL>>,
      <<"2", " ", "R", ".", " ", "N", " ", "1", " ", "1", " ", "1", " ", "a", " ", "b", " ",
              "R", " ", "n", " ", "m", NUL>>,
      <<"2", " ", ".", ".", " ", "N", " ", "1", " ", "1", " ", "1", " ", "a", " ", "b", " ",
              "R", " ", "n", NUL>>,
      <<"1", " ", "M", "M", " ", "N", " ", "1", " ", "1", " ", "1", " ", "a", " ", "b", " ",
              "p", " ", "q">>,
      <<"1", " ", ".", "M">>,
      <<"u", " ", "U", "U", " ", "N", " ", "1", " ", "1", " ", "1", " ", "1", " ", "a", " ",
              "b", " ", "c", " ", "q">>,
      <<"u", " ", ".", ".">>,
      <<"?", " ", "x">>,
      <<"#", " ", "b", "r", "a", "n", "c", "h", ".", "a", "b", " ", "+", "1", " ", "-", "x">>,
      <<"!">>,
      <<"\\xff">> }

LogFragments ==
    { <<RS>>, <<US>>, <<"a">>, <<" ">>, <<"\\xff">>,
      <<"h", US, "p", " ", "q", US>>,
      <<US, US, US, "s">> }

LineFragments ==
    { <<"\n">>, <<"|">>, <<"o", "/", "m">>, <<"o", "/", "H", "E", "A", "D">>, <<" ", "-", ">",
            " ">>,
      <<"m", "|", "*", "|", "o", "/", "m", "|", "[", "a", "h", "e", "a", "d", " ", "1", ",",
              " ", "b", "e", "h", "i", "n", "d", " ", "x", "]">>,
      <<"o", "\t", "u", " ", "(", "f", "e", "t", "c", "h", ")">>,
      <<"o", "\t", "v", " ", "w", " ", "(", "P", "U", "S", "H", ")">> }

RECURSIVE Concat(_)
Concat(fs) == IF fs = <<>> THEN <<>> ELSE Head(fs) \o Concat(Tail(fs))

\* Every concatenation of at most MaxFragments fragments.
PayloadsOf(fragments) ==
    {Concat(fs) : fs \in UNION {[1..n -> fragments] : n \in 0..MaxFragments}}

Payloads ==
    PayloadsOf(StatusFragments) \cup PayloadsOf(LogFragments)
        \cup PayloadsOf(LineFragments)

InitParsers ==
    /\ Constructed
    /\ given \in Payloads
    /\ parsed = NoParse

\* What a call of a parser leaves in `parsed`.
ParsedBy(parser, result) ==
    [parser |-> parser, raised |-> result.raised, value |-> result.value]

\* A parser is a function of its payload: one call per payload shows all
\* it does.
ParsePayload ==
    /\ parsed = NoParse
    /\ \E parser \in Parsers : parsed' = ParsedBy(parser, Parse(parser, given))
    /\ UNCHANGED <<given, cvars, rvars, next_run_id, handles>>

NextParsers == ParsePayload

SpecParsers == InitParsers /\ [][NextParsers]_vars

(***************************************************************************)
(* Properties of the queue.                                                *)
(***************************************************************************)
StartedIds == {started[i].id : i \in 1..Len(started)}
QueuedIds == {queue[i].id : i \in 1..Len(queue)}

\* C1: the queue never invokes an item's action while it is running: between
\* the start of one item and the next mark_idle() call no other action is
\* invoked, so at most one action has been invoked since the last mark_idle().
C1_OneActionPerIdle == active <= 1

\* An enqueue() arrived while an item was executing, and the item it brought
\* was left in the pending list.
C1_Witness ==
    /\ last.op = "enqueue"
    /\ running
    /\ active = 1
    /\ Len(enqueued) \in QueuedIds

C3_Coalescing ==
    /\ \A i \in 1..Len(started) : \A b \in 1..Len(enqueued) :
           ( /\ started[i].priority = BACKGROUND
             /\ enqueued[b].priority = BACKGROUND
             /\ enqueued[b].key = started[i].key
             /\ started[i].id < b )
           => started[i].at < b
    /\ \A i, j \in 1..Len(started) : started[i].id = started[j].id => i = j
    /\ \A b \in 1..Len(enqueued) :
           ( /\ enqueued[b].priority = BACKGROUND
             /\ \A c \in (b + 1)..Len(enqueued) :
                    ~(enqueued[c].priority = BACKGROUND
                      /\ enqueued[c].key = enqueued[b].key) )
           => (b \in QueuedIds \/ b \in StartedIds)
    /\ ~running => queue = <<>>

\* Two BACKGROUND items with one key were enqueued while the queue was
\* running, and after mark_idle() the second has been invoked, the first not.
C3_Witness ==
    \E a, b \in 1..Len(enqueued) :
        /\ a < b
        /\ enqueued[a].priority = BACKGROUND
        /\ enqueued[b].priority = BACKGROUND
        /\ enqueued[a].key = enqueued[b].key
        /\ a \notin StartedIds
        /\ Len(started) > 0
        /\ started[Len(started)].id = b
        /\ last.op = "mark_idle"

\* C4: within a priority tier items are started in the order of their
\* enqueue, and the items left in the pending list keep that order.
C4_FifoWithinTier ==
    /\ \A i, j \in 1..Len(started) :
           (i < j /\ started[i].priority = started[j].priority)
           => started[i].id < started[j].id
    /\ \A i, j \in 1..Len(queue) : i < j => queue[i].id < queue[j].id

\* Two items of one tier were started in the order of their enqueue, and an
\* item enqueued between them was coalesced away.
C4_Witness ==
    \E i, j \in 1..Len(started) :
        /\ i < j
        /\ started[i].priority = started[j].priority
        /\ started[j].id > started[i].id + 1
        /\ (started[i].id + 1) \notin (StartedIds \cup QueuedIds)

\* C5: a queued USER item leaves the pending list only by being started.
C5_UserNeverRemoved ==
    [][\A i \in 1..Len(queue) :
           queue[i].priority = USER
           => (queue[i].id \in {queue'[k].id : k \in 1..Len(queue')}
               \/ queue[i].id \in {started'[k].id : k \in 1..Len(started')})]_vars

\* C6: the pending list holds at most one BACKGROUND item per key.
C6_BackgroundKeyUnique ==
    \A i, j \in 1..Len(queue) :
        ( /\ queue[i].priority = BACKGROUND
          /\ queue[j].priority = BACKGROUND
          /\ queue[i].key = queue[j].key )
        => i = j

\* Two USER items with one key are queued at once, beside a BACKGROUND item.
C6_Witness ==
    /\ \E i, j \in 1..Len(queue) :
           /\ i < j
           /\ queue[i].priority = USER
           /\ queue[j].priority = USER
           /\ queue[i].key = queue[j].key
    /\ \E i \in 1..Len(queue) : queue[i].priority = BACKGROUND

(***************************************************************************)
(* Properties of the controller.                                           *)
(***************************************************************************)

\* C7: after every controller operation and every completion handler, busy
\* is true exactly when a PendingAction is outstanding.
C7_BusyIffPending == busy = (DOMAIN pending # {})

\* A completion handler cleared busy and the action it then started set it
\* again: busy with a new PendingAction outstanding.
C7_Witness ==
    /\ last.op = "finished"
    /\ busy
    /\ DOMAIN pending # {}

\* The items the step enqueued.
NewItems == SubSeq(enqueued', Len(enqueued) + 1, Len(enqueued'))

\* The step is the completion handler of a `kind` intent that exited 0.
FinishedOk(kind) ==
    /\ last'.op = "finished"
    /\ last'.kind = kind
    /\ last'.result.exit_code = 0

\* The run launched by item x has completed.
Completed(x) ==
    /\ x \in StartedIds
    /\ \A r \in DOMAIN pending : pending[r].item # x

\* Item l is the log refresh a commit's completion handler enqueued.
IsCommitLog(l) ==
    /\ l \in 2..Len(enqueued)
    /\ cause[l] = "commit"
    /\ enqueued[l].act = "log"

\* Position of item x in the order of starts.
StartIndex(x) == CHOOSE i \in 1..Len(started) : started[i].id = x

\* A completed commit enqueues exactly a status refresh and a log refresh, in
\* that order, at BACKGROUND priority.
CommitEnqueuesStatusAndLog ==
    FinishedOk("commit") =>
        /\ Len(NewItems) = 2
        /\ NewItems[1].key = "refresh_status" /\ NewItems[1].act = "status"
        /\ NewItems[2].key = "refresh_log" /\ NewItems[2].act = "log"
        /\ NewItems[1].priority = BACKGROUND
        /\ NewItems[2].priority = BACKGROUND

\* C8, as stated: a commit completed with exit code 0 enqueues exactly a status
\* refresh and a log refresh at BACKGROUND priority; when its log refresh is
\* dispatched, a status refresh enqueued at or after the commit's completion
\* was dispatched before it and has completed; and busy is false when the log
\* refresh completes.
C8_CommitFollowUps ==
    [][/\ CommitEnqueuesStatusAndLog
       /\ \A l \in 1..Len(enqueued') :
              (IsCommitLog(l)' /\ l \in StartedIds')
              => \E s \in (l - 1)..Len(enqueued') :
                     /\ enqueued'[s].act = "status"
                     /\ Completed(s)'
                     /\ StartIndex(s)' < StartIndex(l)'
       /\ \A l \in 1..Len(enqueued) :
              ( /\ IsCommitLog(l)
                /\ last'.op = "finished"
                /\ last'.rid \in DOMAIN pending
                /\ pending[last'.rid].item = l )
              => ~busy']_vars

\* C8, amended: the two follow-ups are always enqueued; the order of their
\* dispatch and busy going false are claimed while nothing has been enqueued
\* after them.
C8_CommitFollowUpsUndisturbed ==
    [][/\ CommitEnqueuesStatusAndLog
       /\ \A l \in 1..Len(enqueued') :
              (IsCommitLog(l)' /\ l \in StartedIds' /\ Len(enqueued') = l)
              => /\ enqueued'[l - 1].act = "status"
                 /\ Completed(l - 1)'
                 /\ StartIndex(l - 1)' < StartIndex(l)'
       /\ \A l \in 1..Len(enqueued) :
              ( /\ IsCommitLog(l)
                /\ last'.op = "finished"
                /\ last'.rid \in DOMAIN pending
                /\ pending[last'.rid].item = l
                /\ Len(enqueued') = l )
              => ~busy']_vars

\* A commit completed, then its status refresh, then its log refresh, with
\* nothing enqueued since: the queue is idle and busy is false.
C8_Witness ==
    /\ last.op = "finished"
    /\ last.kind = "log"
    /\ IsCommitLog(Len(enqueued))
    /\ Completed(Len(enqueued))
    /\ Completed(Len(enqueued) - 1)
    /\ ~busy
    /\ ~running

\* The refreshes the completion of each mutating intent is to enqueue.
ExpectedRefreshKeys(kind) ==
    CASE kind \in {"stage", "unstage", "discard", "pull", "stash_apply"} ->
             {"refresh_status"}
      [] kind = "commit" -> {"refresh_status", "refresh_log"}
      [] kind \in {"fetch", "push", "delete_branch", "set_upstream"} ->
             {"refresh_branches"}
      [] kind \in {"switch_branch", "create_branch"} ->
             {"refresh_status", "refresh_branches"}
      [] kind \in {"stash_save", "stash_pop"} ->
             {"refresh_status", "refresh_stashes"}
      [] kind = "stash_drop" -> {"refresh_stashes"}
      [] kind \in {"create_tag", "delete_tag"} -> {"refresh_tags"}
      [] kind \in {"add_remote", "remove_remote", "set_remote_url"} ->
             {"refresh_remotes"}
      [] kind \in {"push_tag", "push_tags"} -> {}

\* C9: the completion of a mutating intent with exit code 0 enqueues, at
\* BACKGROUND priority, one item for each refresh its kind names and nothing
\* else.
C9_RefreshesPerKind ==
    [][\A kind \in MutatingKinds :
           FinishedOk(kind) =>
               /\ {NewItems[i].key : i \in 1..Len(NewItems)} = ExpectedRefreshKeys(kind)
               /\ Len(NewItems) = Cardinality(ExpectedRefreshKeys(kind))
               /\ \A i \in 1..Len(NewItems) :
                      /\ NewItems[i].priority = BACKGROUND
                      /\ KeyOf(NewItems[i].act) = NewItems[i].key
                      /\ NewItems[i].act \in RefreshKinds]_vars

\* A commit completed with exit code 0 and the last two items enqueued are
\* its status and log refreshes.
C9_Witness ==
    /\ last.op = "finished"
    /\ last.kind = "commit"
    /\ last.result.exit_code = 0
    /\ Len(enqueued) >= 2
    /\ cause[Len(enqueued)] = "commit"
    /\ enqueued[Len(enqueued)].key = "refresh_log"
    /\ enqueued[Len(enqueued) - 1].key = "refresh_status"

\* C10: a completion with a nonzero exit code, whatever the intent, sets
\* last_error to a CommandFailed with the argv, exit code, stdout and stderr of
\* that command, calls no parser, changes no data field of RepoState and
\* enqueues nothing.
C10_FailureStops ==
    [][( /\ last'.op = "finished"
         /\ last'.kind # None
         /\ last'.result.exit_code # 0 )
       => /\ last_error' = [type |-> "CommandFailed",
                            command_args |-> handles[last'.rid].args,
                            exit_code |-> last'.result.exit_code,
                            stdout |-> last'.result.stdout,
                            stderr |-> last'.result.stderr]
          /\ handles[last'.rid].args = <<"git">> \o GitArgs(last'.kind, enqueued[pending[last'.rid].item].arg)
          /\ last'.parser = None
          /\ repo_path' = repo_path
          /\ data' = data
          /\ enqueued' = enqueued]_vars

\* A commit, whose PendingAction carries refresh flags, exited nonzero.
C10_Witness ==
    /\ last.op = "finished"
    /\ last.kind = "commit"
    /\ last.result.exit_code # 0
    /\ last_error.type = "CommandFailed"
    /\ last_error.command_args = <<"git", "commit", "-m", "msg">>

\* The step is the completion handler run for a handle that has no
\* PendingAction.
FinishedUnknown ==
    /\ last'.op = "finished"
    /\ last'.rid \notin DOMAIN pending

\* C11: a completion event whose handle has no PendingAction changes neither
\* the pending map, nor any field of RepoState, nor the queue's running flag
\* or pending list, and starts no queued item.
C11_UnknownHandleIgnored ==
    [][FinishedUnknown =>
           /\ pending' = pending
           /\ repo_path' = repo_path
           /\ data' = data
           /\ last_error' = last_error
           /\ busy' = busy
           /\ running' = running
           /\ queue' = queue
           /\ started' = started]_vars

\* The step is the completion handler of a `kind` intent that exited 0 and
\* whose parser raised.
ParserRaised(kind) ==
    /\ last'.op = "finished"
    /\ last'.kind = kind
    /\ last'.result.exit_code = 0
    /\ last'.parser = kind
    /\ last'.threw

\* What C12 states of one parsed kind: the exception stays inside the
\* completion handler, last_error becomes a ParseError and the kind's data
\* field keeps its value.
ParseErrorRecorded(kind) ==
    ParserRaised(kind) =>
        /\ ~last'.escaped
        /\ last_error' = ParseError
        /\ data'[FieldOf(kind)] = data[FieldOf(kind)]

\* C12: for every parsed kind (status, log, branches, conflicts, stashes,
\* tags, remotes, diff), a parser that raises on a completion with exit code 0
\* leaves no exception to propagate, makes last_error a ParseError and leaves
\* the kind's data field unchanged.
C12_ParserExceptionsCaught ==
    [][\A kind \in ParsedKinds : ParseErrorRecorded(kind)]_vars

\* The output is the text `true` between whitespace only.
SaysTrue(stdout) ==
    \E i \in 1..Len(stdout) :
        /\ i + 3 <= Len(stdout)
        /\ SubSeq(stdout, i, i + 3) = <<"t", "r", "u", "e">>
        /\ \A j \in (1..(i - 1)) \cup ((i + 4)..Len(stdout)) :
               stdout[j] \in {" ", "\n", "\t", "\r", "\f"}

\* C13: a repo-validation intent for path P that exits 0 with output `true`
\* (surrounding whitespace trimmed) sets repo_path to P, clears last_error and
\* enqueues a status refresh; with any other output it sets last_error to
\* NotARepo for P, keeps repo_path and enqueues nothing. No other completion
\* changes repo_path.
C13_ValidationDecidesRepoPath ==
    [][last'.op = "finished" =>
           IF FinishedOk("validate_repo")
           THEN LET P == pending[last'.rid].repo_path
                IN  IF SaysTrue(last'.result.stdout)
                    THEN /\ repo_path' = P
                         /\ last_error' = NoValue
                         /\ Len(NewItems) = 1
                         /\ NewItems[1].key = "refresh_status"
                         /\ NewItems[1].act = "status"
                         /\ NewItems[1].priority = BACKGROUND
                    ELSE /\ last_error' = [type |-> "NotARepo", path |-> P]
                         /\ repo_path' = repo_path
                         /\ enqueued' = enqueued
           ELSE repo_path' = repo_path]_vars

\* With /repo open, a validation of /other answered `false` left repo_path
\* at /repo and set NotARepo for /other.
C13_Witness ==
    /\ last.op = "finished"
    /\ last.kind = "validate_repo"
    /\ last.result.exit_code = 0
    /\ ~SaysTrue(last.result.stdout)
    /\ repo_path = "/repo"
    /\ last_error = [type |-> "NotARepo", path |-> "/other"]

\* C14: every operation other than open_repo, called while no repo path is
\* configured, sets last_error to NotARepo and does nothing else: nothing is
\* enqueued or started, no command is dispatched, and the pending map and busy
\* are unchanged.
C14_OperationsRequireRepoPath ==
    [][( /\ last'.op = "request"
         /\ last'.kind # "validate_repo"
         /\ repo_path = None )
       => /\ last_error'.type = "NotARepo"
          /\ enqueued' = enqueued
          /\ queue' = queue
          /\ started' = started
          /\ running' = running
          /\ next_run_id' = next_run_id
          /\ handles' = handles
          /\ pending' = pending
          /\ busy' = busy
          /\ repo_path' = repo_path
          /\ data' = data]_vars

\* A commit requested while the validation of the first open_repo is still in
\* flight: busy, one PendingAction, no repo path, and NotARepo as the result.
C14_Witness ==
    /\ last.op = "request"
    /\ last.kind = "commit"
    /\ repo_path = None
    /\ busy
    /\ DOMAIN pending # {}
    /\ last_error = [type |-> "NotARepo", path |-> "(none)"]
    /\ Len(enqueued) = 1

(***************************************************************************)
(* Properties of the runner.                                               *)
(***************************************************************************)

\* C15: GitService.push with set_upstream and a missing remote or branch, and
\* CommandRunner.run with an empty argument vector, raise before anything is
\* spawned: a call that raises allocates no run id, registers no handle,
\* process or buffer and emits no signal; and no launch ever carries an empty
\* argument vector or a `push -u` without its remote and branch.
C15_PreconditionsRaiseFirst ==
    [][rlast'.op \in {"run", "push"} =>
           IF rlast'.raised
           THEN /\ next_run_id' = next_run_id
                /\ handles' = handles
                /\ processes' = processes
                /\ stdout_buffers' = stdout_buffers
                /\ stderr_buffers' = stderr_buffers
                /\ events' = events
           ELSE LET args == handles'[rlast'.run_id].args
                IN  /\ rlast'.run_id = next_run_id
                    /\ next_run_id' = next_run_id + 1
                    /\ args # <<>>
                    /\ (rlast'.op = "push" /\ \E i \in 1..Len(args) : args[i] = "-u")
                       => /\ Len(args) = 5
                          /\ args[4] \notin {None, ""}
                          /\ args[5] \notin {None, ""}]_vars

\* With run 1 in flight, a push with set_upstream but no remote raised and
\* left the runner as it was.
C15_Witness ==
    /\ rlast.op = "push"
    /\ rlast.raised
    /\ next_run_id = 2
    /\ processes = {1}
    /\ DOMAIN handles = {1}

\* The completion signal of run r has been emitted.
HasFinished(r) ==
    r \in DOMAIN events /\ \E i \in 1..Len(events[r]) : events[r][i].type = "finished"

\* Run r was launched by this runner and its completion has not been emitted.
InFlight(r) == r \in DOMAIN events /\ ~HasFinished(r)

\* command_finished is emitted at most once for every handle.
FinishedAtMostOnce ==
    \A r \in DOMAIN events :
        Cardinality({i \in 1..Len(events[r]) : events[r][i].type = "finished"}) <= 1

\* No output signal of a handle follows its completion signal.
NoOutputAfterFinished ==
    \A r \in DOMAIN events :
        \A i, j \in 1..Len(events[r]) :
            (i < j /\ events[r][i].type = "finished")
            => events[r][j].type \notin {"stdout", "stderr"}

\* cancel and kill return true for a handle of this runner whose run is in
\* flight, and false once the run has completed.
StopOfOwnHandle ==
    (rlast.op \in {"cancel", "kill"} /\ rlast.own)
    => rlast.ret = InFlight(rlast.run_id)

\* cancel and kill return false for a handle this runner never issued.
StopOfForeignHandle ==
    (rlast.op \in {"cancel", "kill"} /\ ~rlast.own) => ~rlast.ret

\* C16: for every handle run() returned, command_finished is emitted at most
\* once and no command_stdout or command_stderr follows it; cancel and kill
\* return true while the run is in flight, and false once its completion has
\* been emitted or when the handle was never issued by this runner.
C16_CompletionOnceAndStop ==
    /\ FinishedAtMostOnce
    /\ NoOutputAfterFinished
    /\ StopOfOwnHandle
    /\ StopOfForeignHandle

\* The chunks of the `type` signals among the first n signals of run r, joined
\* in order.
RECURSIVE ChunksJoined(_, _, _)
ChunksJoined(r, type, n) ==
    IF n = 0 THEN <<>>
    ELSE ChunksJoined(r, type, n - 1)
             \o (IF events[r][n].type = type THEN events[r][n].data ELSE <<>>)

\* C17: with any number of runs in flight and their chunks arriving in any
\* interleaving, the result in a handle's completion signal has stdout equal
\* to the in-order concatenation of the stdout chunks emitted for that handle,
\* and stderr likewise: no chunk is lost and none of another run is included.
C17_ResultIsOwnChunks ==
    \A r \in DOMAIN events :
        \A k \in 1..Len(events[r]) :
            events[r][k].type = "finished"
            => /\ events[r][k].stdout = ChunksJoined(r, "stdout", Len(events[r]))
               /\ events[r][k].stderr = ChunksJoined(r, "stderr", Len(events[r]))

\* Two runs were in flight together, each emitted a stdout chunk of its own,
\* and both completed with their own chunk as stdout.
C17_Witness ==
    /\ DOMAIN events = {1, 2}
    /\ Len(events[1]) = 3 /\ Len(events[2]) = 3
    /\ events[1][2].type = "stdout" /\ events[2][2].type = "stdout"
    /\ events[1][3].type = "finished" /\ events[2][3].type = "finished"
    /\ events[1][3].stdout = <<"a">>
    /\ events[2][3].stdout = <<"b", "c">>

\* C18: after a branches refresh completes with exit code 0 the controller
\* dispatches a remote-branches command (enqueued or launched by the
\* completion handler), and RepoState holds a remote_branches field for its
\* parsed result.
C18_BranchesThenRemoteBranches ==
    [][(FinishedOk("branches") /\ ~last'.threw)
       => /\ \/ \E i \in 1..Len(NewItems) : NewItems[i].act = "remote_branches"
             \/ \E r \in DOMAIN pending' : pending'[r].kind = "remote_branches"
          /\ "remote_branches" \in DOMAIN data']_vars

(***************************************************************************)
(* Properties of the parsers.                                              *)
(***************************************************************************)
\* The types of app/core/models.py: str, str or None, and lists.
IsStr(x) == x \in Seq(STRING) /\ x # NoText
IsOptionalStr(x) == x \in Seq(STRING)
IsListOf(l, IsItem(_)) == DOMAIN l = 1..Len(l) /\ \A i \in 1..Len(l) : IsItem(l[i])

IsFileChange(c) ==
    /\ DOMAIN c = {"path", "staged_status", "unstaged_status", "orig_path"}
    /\ IsStr(c.path) /\ c.staged_status \in STRING /\ c.unstaged_status \in STRING
    /\ IsOptionalStr(c.orig_path)

IsBranchInfo(b) ==
    /\ DOMAIN b = {"name", "head_oid", "upstream", "ahead", "behind"}
    /\ IsOptionalStr(b.name) /\ IsOptionalStr(b.head_oid) /\ IsOptionalStr(b.upstream)
    /\ b.ahead \in Int /\ b.behind \in Int

IsRepoStatus(s) ==
    /\ DOMAIN s = {"branch", "staged", "unstaged", "untracked", "conflicted"}
    /\ s.branch = NoValue \/ IsBranchInfo(s.branch)
    /\ IsListOf(s.staged, IsFileChange) /\ IsListOf(s.unstaged, IsFileChange)
    /\ IsListOf(s.untracked, IsFileChange) /\ IsListOf(s.conflicted, IsFileChange)

IsCommit(c) ==
    /\ DOMAIN c = {"oid", "parents", "author_name", "author_email", "author_date",
                   "subject"}
    /\ IsStr(c.oid) /\ IsListOf(c.parents, IsStr) /\ IsStr(c.author_name)
    /\ IsStr(c.author_email) /\ IsStr(c.author_date) /\ IsStr(c.subject)

IsStashEntry(s) ==
    /\ DOMAIN s = {"oid", "selector", "summary", "date"}
    /\ IsStr(s.oid) /\ IsStr(s.selector) /\ IsStr(s.summary) /\ IsStr(s.date)

IsBranch(b) ==
    /\ DOMAIN b = {"name", "is_current", "upstream", "ahead", "behind", "gone"}
    /\ IsStr(b.name) /\ b.is_current \in BOOLEAN /\ IsOptionalStr(b.upstream)
    /\ b.ahead \in Int /\ b.behind \in Int /\ b.gone \in BOOLEAN

IsRemoteBranch(b) ==
    /\ DOMAIN b = {"remote", "name", "full_name"}
    /\ IsStr(b.remote) /\ IsStr(b.name) /\ IsStr(b.full_name)

IsTag(t) == DOMAIN t = {"name"} /\ IsStr(t.name)

IsRemote(r) ==
    /\ DOMAIN r = {"name", "fetch_url", "push_url"}
    /\ IsStr(r.name) /\ IsOptionalStr(r.fetch_url) /\ IsOptionalStr(r.push_url)

\* The return type each parser declares.
WellTyped(parser, value) ==
    CASE parser = "status" -> IsRepoStatus(value)
      [] parser = "log" -> IsListOf(value, IsCommit)
      [] parser = "branches" -> IsListOf(value, IsBranch)
      [] parser = "remote_branches" -> IsListOf(value, IsRemoteBranch)
      [] parser = "diff" -> IsStr(value)
      [] parser = "conflicts" -> IsListOf(value, IsStr)
      [] parser = "stashes" -> IsListOf(value, IsStashEntry)
      [] parser = "tags" -> IsListOf(value, IsTag)
      [] parser = "remotes" -> IsListOf(value, IsRemote)

\* C19: whatever the bytes, every parser (status, log, branches,
\* remote-branches, diff, conflicts, stashes, tags, remotes) returns a value
\* of its declared type and raises nothing.
C19_ParsersTotal ==
    parsed # NoParse => ~parsed.raised /\ WellTyped(parsed.parser, parsed.value)

\* The status parser has met "+1" and "-x" in a branch.ab header and a byte
\* that is not UTF-8, and returned ahead = 1, behind = 0.
C19_Witness ==
    /\ parsed.parser = "status"
    /\ given = <<"\\xff">> \o <<NUL>>
                  \o <<"#", " ", "b", "r", "a", "n", "c", "h", ".", "a", "b", " ",
                       "+", "1", " ", "-", "x">>
    /\ ~parsed.raised
    /\ parsed.value.branch # NoValue
    /\ parsed.value.branch.ahead = 1
    /\ parsed.value.branch.behind = 0

\* The NUL-delimited records of the payload, and the first of them that is
\* not empty (0 when all are).
GivenRecords == Split(given, NUL)

FirstRecord ==
    LET full == {k \in 1..Len(GivenRecords) : GivenRecords[k] # <<>>}
    IN  IF full = {} THEN 0 ELSE CHOOSE k \in full : \A j \in full : k <= j

\* The status parser was given a payload whose first record is of type 2
\* and is followed by a record that is not empty.
RenamePair ==
    /\ parsed.parser = "status"
    /\ FirstRecord > 0
    /\ GivenRecords[FirstRecord][1] = "2"
    /\ FirstRecord + 1 <= Len(GivenRecords)
    /\ GivenRecords[FirstRecord + 1] # <<>>

\* What the status parser returns for the records after the pair alone.
AfterPair ==
    parse_status_porcelain_v2(
        Join(SubSeq(GivenRecords, FirstRecord + 2, Len(GivenRecords)), NUL)).value

\* l is rest, or rest after one more element.
ExtendsByAtMostOne(l, rest) ==
    /\ Len(l) - Len(rest) \in {0, 1}
    /\ SubSeq(l, Len(l) - Len(rest) + 1, Len(l)) = rest

\* The FileChange values the pair added to the result.
YieldedByPair ==
    {parsed.value.staged[1] : i \in {1} \cap {Len(parsed.value.staged) - Len(AfterPair.staged)}}
        \cup {parsed.value.unstaged[1] :
                  i \in {1} \cap {Len(parsed.value.unstaged) - Len(AfterPair.unstaged)}}

\* The record after the type-2 record is the original path of every change
\* the pair added, and is not read as a record: but for those changes the
\* result is the result of the records after the pair.
PairConsumed ==
    /\ ~parsed.raised
    /\ ExtendsByAtMostOne(parsed.value.staged, AfterPair.staged)
    /\ ExtendsByAtMostOne(parsed.value.unstaged, AfterPair.unstaged)
    /\ parsed.value.untracked = AfterPair.untracked
    /\ parsed.value.conflicted = AfterPair.conflicted
    /\ parsed.value.branch = AfterPair.branch
    /\ \A change \in YieldedByPair :
           change.orig_path = Decode(GivenRecords[FirstRecord + 1])

\* The XY field of the type-2 record has a code other than '.'.
PairHasCode ==
    LET fields == Split(Decode(GivenRecords[FirstRecord]), " ")
    IN  /\ Len(fields) > 1
        /\ Len(fields[2]) >= 2
        /\ fields[2][1] # "." \/ fields[2][2] # "."

\* C20: in the status parser a type-2 record followed by a NUL-delimited
\* record that is not empty yields exactly one FileChange, whose orig_path
\* is the decoded text of the following record, and the following record is
\* consumed: it is not interpreted as a record, whatever its first
\* character.
C20_RenameConsumesNext ==
    RenamePair => PairConsumed /\ Cardinality(YieldedByPair) = 1

\* C20 as the parser has it: the pair yields one FileChange when X or Y of
\* the type-2 record is a code other than '.', and none otherwise; the
\* following record is consumed in both cases.
C20_RenameConsumesNextWhenCoded ==
    RenamePair =>
        /\ PairConsumed
        /\ Cardinality(YieldedByPair) = IF PairHasCode THEN 1 ELSE 0

\* A rename followed by bytes that look like a type-1 record: one staged
\* change with that text as its original path, and nothing else.
C20_Witness ==
    /\ RenamePair
    /\ GivenRecords[FirstRecord + 1][1] = "1"
    /\ Len(parsed.value.staged) = 1
    /\ parsed.value.staged[1].orig_path = GivenRecords[FirstRecord + 1]
    /\ parsed.value.staged[1].staged_status = "R"
    /\ parsed.value.unstaged = <<>>

\* The first record that is not empty, decoded, and its type; a branch
\* header has none.
FirstLine == Decode(GivenRecords[FirstRecord])

FirstIsChange ==
    /\ parsed.parser = "status"
    /\ FirstRecord > 0
    /\ ~StartsWith(FirstLine, <<"#", " ">>)

\* The X and Y codes of a record: the first two characters of its XY field,
\* and '.' for both when the field is missing or shorter than that.
CodesOf(line) ==
    LET fields == Split(line, " ")
    IN  IF Len(fields) > 1 /\ Len(fields[2]) >= 2
        THEN <<fields[2][1], fields[2][2]>>
        ELSE <<".", ".">>

\* What the status parser returns for the records after the first one, and
\* after the original path a type-2 record takes with it.
AfterFirst ==
    LET next == FirstRecord + 1
        paired == /\ FirstLine[1] = "2"
                  /\ next <= Len(GivenRecords)
                  /\ GivenRecords[next] # <<>>
    IN  parse_status_porcelain_v2(
            Join(SubSeq(GivenRecords, IF paired THEN next + 1 ELSE next,
                        Len(GivenRecords)), NUL)).value

\* l is rest after n more elements at its front, n being 0 or 1.
Prepends(l, n, rest) ==
    /\ Len(l) = Len(rest) + n
    /\ SubSeq(l, n + 1, Len(l)) = rest

\* The lists of `value` are those of `rest` after s, u, t and c more
\* changes in staged, unstaged, untracked and conflicted.
ListsGrowBy(value, rest, s, u, t, c) ==
    /\ Prepends(value.staged, s, rest.staged)
    /\ Prepends(value.unstaged, u, rest.unstaged)
    /\ Prepends(value.untracked, t, rest.untracked)
    /\ Prepends(value.conflicted, c, rest.conflicted)

\* A type-1 or type-2 record with codes x and y.
ChangeListed(value, rest, x, y) ==
    /\ ListsGrowBy(value, rest, IF x # "." THEN 1 ELSE 0, IF y # "." THEN 1 ELSE 0, 0, 0)
    /\ x # "." => value.staged[1].staged_status = x /\ value.staged[1].unstaged_status = y
    /\ y # "." => value.unstaged[1].staged_status = x /\ value.unstaged[1].unstaged_status = y
    /\ x # "." /\ y # "." => value.staged[1] = value.unstaged[1]

\* C21: in the status parser a type-1 or type-2 change is in the staged
\* list iff its X code is not '.', and in the unstaged list iff its Y code
\* is not '.', so it is in both when both codes differ from '.'; a type-u
\* record goes to the conflicted list whatever its XY and to no other list;
\* a '?' record goes to the untracked list only; '!' and unrecognised
\* record types add to no list.
C21_ListsByRecordType ==
    FirstIsChange =>
        /\ ~parsed.raised
        /\ IF FirstLine[1] \in {"1", "2"}
           THEN ChangeListed(parsed.value, AfterFirst,
                             CodesOf(FirstLine)[1], CodesOf(FirstLine)[2])
           ELSE IF FirstLine[1] = "u"
           THEN ListsGrowBy(parsed.value, AfterFirst, 0, 0, 0, 1)
           ELSE IF FirstLine[1] = "?"
           THEN ListsGrowBy(parsed.value, AfterFirst, 0, 0, 1, 0)
           ELSE ListsGrowBy(parsed.value, AfterFirst, 0, 0, 0, 0)

\* A type-1 record with XY "MM", then a type-u record with XY "..": the one
\* change is in both lists, the unmerged one in the conflicted list alone.
C21_Witness ==
    /\ FirstIsChange
    /\ FirstLine[1] = "1"
    /\ CodesOf(FirstLine) = <<"M", "M">>
    /\ Len(parsed.value.staged) = 1
    /\ parsed.value.staged = parsed.value.unstaged
    /\ Len(parsed.value.conflicted) = 1
    /\ parsed.value.conflicted[1].staged_status = "."
    /\ parsed.value.untracked = <<>>

\* The text between record separators that is not empty, and the n-th of
\* the unit-separated fields of a record: the empty string past the last.
GivenLogRecords == SelectSeq(Split(Decode(given), RS), LAMBDA record : record # <<>>)

FieldAt(record, n) ==
    IF n <= Len(Split(record, US)) THEN Split(record, US)[n] ELSE <<>>

CommitFrom(commit, record) ==
    /\ commit.oid = FieldAt(record, 1)
    /\ commit.parents = IF FieldAt(record, 2) = <<>> THEN <<>>
                        ELSE SplitWhitespace(FieldAt(record, 2))
    /\ commit.author_name = FieldAt(record, 3)
    /\ commit.author_email = FieldAt(record, 4)
    /\ commit.author_date = FieldAt(record, 5)
    /\ commit.subject = FieldAt(record, 6)

StashFrom(stash, record) ==
    /\ stash.oid = FieldAt(record, 1)
    /\ stash.selector = FieldAt(record, 2)
    /\ stash.summary = FieldAt(record, 3)
    /\ stash.date = FieldAt(record, 4)

\* C22: the log parser yields one Commit per record between 0x1e
\* separators that is not empty, in order, from the first six 0x1f-separated
\* fields: a missing trailing field is the empty string, fields after the
\* sixth are ignored, and parents is the second field split on whitespace
\* (the empty list when the field is empty). The stash parser does the same
\* with four fields.
C22_OneEntryPerRecord ==
    /\ parsed.parser = "log" =>
           /\ ~parsed.raised
           /\ Len(parsed.value) = Len(GivenLogRecords)
           /\ \A i \in 1..Len(GivenLogRecords) :
                  CommitFrom(parsed.value[i], GivenLogRecords[i])
    /\ parsed.parser = "stashes" =>
           /\ ~parsed.raised
           /\ Len(parsed.value) = Len(GivenLogRecords)
           /\ \A i \in 1..Len(GivenLogRecords) :
                  StashFrom(parsed.value[i], GivenLogRecords[i])

\* The log parser on one record of nine fields: one commit, its parents the
\* two words of the second field, its subject the sixth field, and the
\* seventh to ninth fields nowhere.
C22_Witness ==
    /\ parsed.parser = "log"
    /\ Len(GivenLogRecords) = 1
    /\ Len(Split(GivenLogRecords[1], US)) = 9
    /\ Len(parsed.value) = 1
    /\ parsed.value[1].oid = <<"h">>
    /\ parsed.value[1].parents = <<<<"p">>, <<"q">>>>
    /\ parsed.value[1].author_name = <<>>
    /\ parsed.value[1].subject = <<"s">>

(***************************************************************************)
(* Properties of the controller with its queue.                            *)
(***************************************************************************)

\* The step is the completion handler of a command the controller dispatched.
FinishedDispatched ==
    /\ last'.op = "finished"
    /\ last'.rid \in DOMAIN pending

\* The step started exactly one item, after everything the step enqueued was
\* in the pending list, and left the queue running on it.
StartedOneAfterFollowUps ==
    /\ Len(started') = Len(started) + 1
    /\ started'[Len(started')].at = Len(enqueued')
    /\ started'[Len(started')].id \notin {queue'[k].id : k \in 1..Len(queue')}
    /\ running'
    /\ active' = 1

\* C23: the completion handler of a dispatched command, whatever the outcome
\* (exit code 0 or not, parser raising or not, validation output `true` or
\* not), removes the PendingAction, recomputes busy and calls mark_idle() once
\* after the follow-up refreshes were enqueued: when an item was queued or a
\* follow-up was enqueued, exactly one item is started, with every follow-up
\* already in the list; otherwise the queue is left idle and busy false.
C23_CompletionMarksIdleOnce ==
    [][FinishedDispatched =>
           /\ last'.rid \notin DOMAIN pending'
           /\ busy' = (DOMAIN pending' # {})
           /\ IF queue # <<>> \/ NewItems # <<>>
              THEN StartedOneAfterFollowUps
              ELSE /\ started' = started
                   /\ queue' = <<>>
                   /\ ~running'
                   /\ active' = 0
                   /\ ~busy']_vars

\* A diff completed with exit code 0 and its parser raised: the exception
\* left the handler, and the queue is idle with busy false.
C23_Witness ==
    /\ last.op = "finished"
    /\ last.kind = "diff"
    /\ last.threw
    /\ last.escaped
    /\ ~running
    /\ ~busy
    /\ active = 0

\* The run ids the runner has started, in order.
LaunchedIds == [i \in 1..Len(launched) |-> launched[i].run_id]

\* Every run in flight has its PendingAction, so its completion finds it; and
\* run ids strictly increase, so no id of an outstanding PendingAction is
\* given to another run.
PendingFoundAndIdsIncrease ==
    /\ DOMAIN handles = DOMAIN pending
    /\ \A r \in DOMAIN pending : r < next_run_id
    /\ \A i, j \in 1..Len(launched) : i < j => LaunchedIds[i] < LaunchedIds[j]
    /\ \A r \in DOMAIN pending :
           Cardinality({i \in 1..Len(launched) : LaunchedIds[i] = r}) = 1

\* C24, as stated: the PendingAction of a dispatched command is stored under
\* its run id before the command is started; the completion of a dispatched
\* command finds its PendingAction; run ids strictly increase and none is
\* reused while its PendingAction is outstanding.
C24_PendingStoredBeforeStart ==
    /\ \A i \in 1..Len(launched) : launched[i].stored
    /\ PendingFoundAndIdsIncrease

\* C24, amended: the PendingAction is stored after the runner has started the
\* process and announced it, by the action that launched it and before that
\* action returns; between steps every run in flight has its PendingAction.
C24_PendingStoredAfterStart ==
    /\ \A i \in 1..Len(launched) : ~launched[i].stored
    /\ PendingFoundAndIdsIncrease

\* A completion found its PendingAction, and the action it started launched a
\* second command, whose PendingAction is outstanding under a larger run id.
C24_Witness ==
    /\ last.op = "finished"
    /\ last.kind # None
    /\ Len(launched) >= 2
    /\ DOMAIN pending = {LaunchedIds[Len(launched)]}
    /\ last.rid < LaunchedIds[Len(launched)]
    /\ ~launched[Len(launched)].stored

\* C25: the queue is work-conserving: when enqueue() or mark_idle() has
\* returned and the queue is idle, its pending list is empty.
C25_WorkConserving ==
    [][(last'.op \in {"enqueue", "mark_idle"} /\ ~running') => queue' = <<>>]_vars

\* mark_idle() returned on an idle queue after two items were started, the
\* second by an earlier mark_idle() or by the first item's own.
C25_Witness ==
    /\ last.op = "mark_idle"
    /\ ~running
    /\ queue = <<>>
    /\ Len(started) >= 2

\* C26: after every controller operation and every completion handler,
\* returned or raised, a running queue has a PendingAction outstanding: a
\* command is in flight whose completion will release the queue.
C26_RunningImpliesPending == running => DOMAIN pending # {}

\* C27: at most one PendingAction is outstanding at any time: the controller
\* dispatches no command while another it dispatched has not completed.
C27_OnePendingAtATime == Cardinality(DOMAIN pending) <= 1

StatusRefreshing == {kind \in MutatingKinds : "status" \in RefreshFlags(kind)}

\* The status items in the pending list.
QueuedStatus(q) == {q[k].id : k \in {j \in 1..Len(q) : q[j].act = "status"}}

\* The status items the step started.
StartedStatus ==
    {started'[k].id :
        k \in {j \in (Len(started) + 1)..Len(started') :
                   enqueued'[started'[j].id].act = "status"}}

\* Another status-refreshing USER intent is waiting in the pending list.
AnotherWaits ==
    \E k \in 1..Len(queue) :
        queue[k].priority = USER /\ queue[k].act \in StatusRefreshing

\* C29: when a status-refreshing USER intent completes with exit code 0, the
\* status refresh it enqueues takes the place of every status refresh queued
\* before, so one status item exists; while another such intent that was
\* queued with it is waiting, that intent is started and no status command
\* is dispatched. So the intents queued together lead to one status command,
\* dispatched after the last of them has completed.
C29_StatusRefreshesCoalesce ==
    [][\A kind \in StatusRefreshing :
           FinishedOk(kind) =>
               /\ NewItems # <<>>
               /\ NewItems[1].act = "status"
               /\ NewItems[1].priority = BACKGROUND
               /\ QueuedStatus(queue') \cup StartedStatus = {NewItems[1].id}
               /\ \A r \in DOMAIN pending' : pending'[r].kind # "status"
                                                \/ pending'[r].item = NewItems[1].id
               /\ AnotherWaits =>
                      /\ StartedStatus = {}
                      /\ Len(started') = Len(started) + 1
                      /\ started'[Len(started')].priority = USER]_vars

\* A stage and a commit were queued together and both completed with exit
\* code 0: the status refresh of the stage was never dispatched, and the one
\* of the commit was dispatched when the commit had completed.
C29_Witness ==
    /\ last.op = "finished"
    /\ last.kind = "commit"
    /\ last.result.exit_code = 0
    /\ Len(started) >= 3
    /\ enqueued[started[Len(started) - 2].id].act = "stage"
    /\ enqueued[started[Len(started) - 1].id].act = "commit"
    /\ started[Len(started) - 1].id <= started[Len(started) - 2].at
    /\ started[Len(started)].id = Len(enqueued) - 1
    /\ enqueued[Len(enqueued) - 1].act = "status"
    /\ \E s \in 1..Len(enqueued) :
           /\ cause[s] = "stage"
           /\ enqueued[s].act = "status"
           /\ s \notin StartedIds \cup QueuedIds

\* Nothing is left to do: the queue is idle, its pending list is empty, no
\* PendingAction is outstanding and busy is false.
Quiescent ==
    /\ ~running
    /\ queue = <<>>
    /\ DOMAIN pending = {}
    /\ ~busy

\* Item x has left the pending list, started or evicted by coalescing.
Left(x) == x \in 1..Len(enqueued) /\ x \notin QueuedIds

\* C30: when every launched command delivers its completion event and
\* finitely many intents are requested, every queued item leaves the pending
\* list, started (once) unless coalescing evicted it, and the system comes to
\* rest: queue idle, pending list empty, no PendingAction outstanding, busy
\* false.
C30_EventuallyQuiescent ==
    <>[](Quiescent /\ \A x \in 1..Len(enqueued) : Left(x))

====
